---- MODULE Spec2Model ----
(***************************************************************************)
(* Job lifecycle and status propagation of slideitin.                      *)
(*                                                                         *)
(* The repository holds three variants of the dispatcher:                  *)
(*   "tasks" : api AddJob writes the job document, stages the files and    *)
(*             creates a Cloud Task; slides-service ProcessSlides drives   *)
(*             the job (backend/api/..., backend/slides-service/...).      *)
(*   "proc"  : AddJob writes the job document and starts `go processJob`   *)
(*             in the same process (backend/services/queue/job_queue.go).  *)
(*   "mem"   : jobs live in a map, a buffered channel feeds three workers, *)
(*             subscribers are channels registered on the job.             *)
(* The variable `variant` selects which of them a behaviour runs.          *)
(***************************************************************************)
EXTENDS Integers, Sequences, FiniteSets, TLC

VARIABLES
    variant,      \* which dispatcher variant this behaviour runs
    now,          \* time.Now().Unix()
    jobStore,     \* Firestore collection "jobs":    job id -> document
    resultStore,  \* Firestore collection "results": job id -> document
    blobs,        \* Cloud Storage bucket: job id -> staged file indexes
    submitResp,   \* HTTP answer of GenerateSlides per submission
    memStatus,    \* Status field of the in-memory *Job built by AddJob
    taskFiles,    \* Cloud Task payload: job id -> number of file references (-1: no task)
    deliveries,   \* how often the task endpoint was invoked per job
    pcT,          \* position of the running ProcessSlides / processJob per job
    genStep,      \* number of progress callbacks the generator has made
    lastResp,     \* HTTP status of the last finished ProcessSlides run (0: none)
    reported,     \* completion reported (success log / 200 answer / in-memory job)
    completeErr,  \* the write of setJobCompleted failed in the current run
    procCount,    \* number of processJob invocations per job
    crashed,      \* the api process died of an unrecovered panic
    jobsMap,      \* in-memory variant: keys of s.jobs
    queue,        \* in-memory variant: content of the channel s.queue
    addPc,        \* in-memory variant: position of the AddJob call per job
    workerJob,    \* in-memory variant: the job each worker is processing (0: none)
    mVer,         \* in-memory variant: number of updateJobStatus calls on the job
    mUrl,         \* in-memory variant: job.ResultURL is set
    removePending,\* in-memory variant: a `go removeJob` has not run yet
    jobSubs,      \* in-memory variant: job.Subscribers
    subPc,        \* position of each stream handler
    chan,         \* content of each handler's updates channel
    chanClosed,   \* the handler's updates channel was closed
    snap,         \* the initial JobUpdate a Subscribe call has built
    events,       \* SSE events each handler has emitted, in order
    dropped,      \* updates dropped for a subscriber because its channel was full
    regVer,       \* job version when the subscriber was registered
    clientGone,   \* the client of the handler has disconnected
    watchPc,      \* Firestore stream: position of the handler's WatchJob goroutine
    seen,         \* Firestore stream: the document the snapshot iterator delivered last
    cancelled,    \* Firestore stream: cancelStream was called
    runEnd,       \* how the current ProcessSlides / processJob run of a job ended
    storeFault,   \* a status write of the current run was rejected by the Job Store
    cleanupTried, \* the current ProcessSlides run has reached its cleanup loop
    getResp,      \* what the last GetJob poll for a job returned
    req,          \* the request the submit handler is given in the validation scenario
    resResp,      \* what the last GetResult call for a job returned
    everCompleted,\* the write of status completed was accepted for the job at some time
    lockPc,       \* in-memory variant, statement level: function and statement of each goroutine
    svcMu,        \* in-memory variant, statement level: writer and readers of Service.mu
    jobMu,        \* in-memory variant, statement level: holder of Job.mu ("": free)
    lkMap,        \* in-memory variant, statement level: the job is in s.jobs
    lkFound,      \* in-memory variant, statement level: result of the last map lookup per goroutine
    lkSubs,       \* in-memory variant, statement level: the handler's channel is in job.Subscribers
    lkQueue,      \* in-memory variant, statement level: jobs in the channel s.queue
    lkChan,       \* in-memory variant, statement level: updates in the handler's channel
    lkFields,     \* in-memory variant, statement level: number of the write each job field comes from
    lkSnap,       \* in-memory variant, statement level: the fields the handler has read (-1: not read)
    lkWrites,     \* in-memory variant, statement level: finished updateJobStatus calls
    lkFinal,      \* in-memory variant, statement level: the running updateJobStatus writes a final status
    stFiles,      \* staged files: the filenames of the submission, in order
    stBucket,     \* staged files: the bytes stored under each object path (0: no object)
    stRefs,       \* staged files: the FileReferences of the task payload
    stGot,        \* staged files: the bytes ProcessSlides has downloaded, per reference
    stDel,        \* staged files: whether each Delete of the cleanup loop removed an object
    stPc,         \* staged files: loop the job is in
    themeEx       \* the template data generateThemeExample has built for the request

storeVars == <<jobStore, resultStore, blobs>>
dispVars  == <<submitResp, memStatus, taskFiles, deliveries, pcT, genStep,
               lastResp, reported, completeErr, procCount>>
memVars   == <<jobsMap, queue, addPc, workerJob, mVer, mUrl, removePending>>
subVars   == <<jobSubs, subPc, chan, chanClosed, snap, events, dropped, regVer,
               clientGone>>
watchVars == <<watchPc, seen, cancelled>>
histVars  == <<runEnd, storeFault, cleanupTried, everCompleted>>
reqVars   == <<req, resResp, themeEx>>
lockVars  == <<lockPc, svcMu, jobMu, lkMap, lkFound, lkSubs, lkQueue, lkChan,
               lkFields, lkSnap, lkWrites, lkFinal>>
stageVars == <<stFiles, stBucket, stRefs, stGot, stDel, stPc>>

----------------------------------------------------------------------------
(* Bounds *)

NumJobs       == 2    \* job ids of the in-process dispatcher
NumTaskJobs   == 1    \* job ids of the Cloud Tasks dispatcher
MaxFiles      == 2    \* files per submission
MaxDeliveries == 2    \* invocations of the task endpoint per job
NumMemJobs    == 3    \* job ids of the in-memory dispatcher
QueueCap      == 1    \* capacity of the queue channel (100 in the program)
MaxProgress   == 1    \* progress callbacks of the in-memory generator per job
ChanCap       == 2    \* capacity of a handler's updates channel (10 in the program)
MaxPings      == 1    \* heartbeats per stream
MaxTicks      == 2    \* steps of the clock
\* consecutive polls answered completed that the model counts
MaxPolls == 2

Jobs     == 1..NumJobs
TaskJobs == 1..NumTaskJobs
MemJobs  == 1..NumMemJobs
JobIds   == Jobs \cup TaskJobs \cup MemJobs
\* the two stream handlers of the fan-out scenario
Subs     == {"a", "b"}

----------------------------------------------------------------------------
(* Program constants *)

StatusQueued     == "queued"
StatusProcessing == "processing"
StatusCompleted  == "completed"
StatusFailed     == "failed"

JobTTL    == 300
ResultTTL == 3600

ValidThemes       == {"default", "beam", "rose_pine", "gaia", "uncover", "graph_paper"}
ValidSlideDetails == {"minimal", "medium", "detailed"}
ValidAudiences    == {"general", "academic", "technical", "professional", "executive"}

\* the four progress messages of the generator, in order
ProgressMsg(i) ==
    CASE i = 1 -> "Analyzing uploaded files"
      [] i = 2 -> "Generating content for slides"
      [] i = 3 -> "Creating presentation with AI"
      [] OTHER -> "Finalizing presentation"

NumProgress == 4

\* for i := 0; i < 3; i++ { go s.worker() }
NumWorkers == 3
Workers    == 1..NumWorkers

\* a check that takes processing for a final status too
TerminalOrProcessing(s) == s = StatusCompleted \/ s = StatusFailed \/ s = StatusProcessing

Terminal(s) == s = StatusCompleted \/ s = StatusFailed

----------------------------------------------------------------------------
(* Firestore documents *)

NoJobDoc == [exists |-> FALSE, status |-> "", message |-> "",
             createdAt |-> 0, updatedAt |-> 0, expiresAt |-> 0]

\* JobUpdate; ver stands for message and updatedAt (the number of the write
\* in the in-memory variant, the message in the Firestore variants), src
\* tells the initial update of Subscribe / WatchJob from the later ones
NoUpdate == [status |-> "", ver |-> 0, url |-> FALSE, src |-> "sub"]

\* no run of the job has ended yet
NoEnd == [why |-> "", err |-> ""]

NoResultDoc == [exists |-> FALSE, resultUrl |-> 0, createdAt |-> 0,
                expiresAt |-> 0, run |-> 0]

\* FirestoreJob written by AddJob: no expiresAt
NewJobDoc == [exists |-> TRUE, status |-> StatusQueued,
              message |-> "Job added to queue",
              createdAt |-> now, updatedAt |-> now, expiresAt |-> 0]

\* Doc(id).Update with status, message, updatedAt: fails on a missing
\* document or when the store fails (ok = FALSE); returns <<store, err>>.
StatusUpdate(store, j, status, message, ok) ==
    IF ok /\ store[j].exists
    THEN <<[store EXCEPT ![j].status = status, ![j].message = message,
                         ![j].updatedAt = now], FALSE>>
    ELSE <<store, TRUE>>

\* Doc(id).Update of setJobCompleted: status, message, updatedAt, expiresAt
CompletedUpdate(store, j, message, ok) ==
    IF ok /\ store[j].exists
    THEN <<[store EXCEPT ![j].status = StatusCompleted, ![j].message = message,
                         ![j].updatedAt = now, ![j].expiresAt = now + JobTTL], FALSE>>
    ELSE <<store, TRUE>>

\* a storeResult that gives the result the lifetime of a job record
StoreResultShortLived(store, j, run, ok) ==
    IF ok
    THEN <<[store EXCEPT ![j] = [exists |-> TRUE, resultUrl |-> j, createdAt |-> now,
                                 expiresAt |-> now + JobTTL, run |-> run]], FALSE>>
    ELSE <<store, TRUE>>

\* a storeResult that creates the document and leaves an existing one as it
\* is
StoreResultKeepFirst(store, j, run, ok) ==
    IF ok
    THEN <<[store EXCEPT ![j] =
               IF @.exists THEN @
               ELSE [exists |-> TRUE, resultUrl |-> j, createdAt |-> now,
                     expiresAt |-> now + ResultTTL, run |-> run]], FALSE>>
    ELSE <<store, TRUE>>

\* Doc(id).Set of storeResult: creates or overwrites; returns <<store, err>>
StoreResult(store, j, run, ok) ==
    IF ok
    THEN <<[store EXCEPT ![j] = [exists |-> TRUE, resultUrl |-> j, createdAt |-> now,
                                 expiresAt |-> now + ResultTTL, run |-> run]], FALSE>>
    ELSE <<store, TRUE>>

----------------------------------------------------------------------------
(* Submit handler of the Cloud Tasks variant: validation *)

SampleThemes    == {"default", "bogus"}
SampleDetails   == {"minimal", "huge"}
SampleAudiences == {"general", "aliens"}

TextMimes   == {"text/plain", "text/markdown", "text/html", "text/xml"}

SampleFiles == { [ext |-> ".md",  mime |-> "text/plain"],
                 [ext |-> ".exe", mime |-> "application/octet-stream"] }

IsValidTheme(t) == t \in ValidThemes

\* an empty setting skips the check
IsValidSlideDetail(d) == d = "" \/ d \in ValidSlideDetails
IsValidAudience(a)    == a = "" \/ a \in ValidAudiences

\* strings.Contains(mimeType, "markdown") || strings.Contains(mimeType, "text/")
ContainsText(mime) == mime \in TextMimes

IsAllowed(ext, mime) ==
    /\ ext \in {".pdf", ".md", ".txt"}
    /\ \/ mime = "application/pdf"
       \/ mime = "text/plain"
       \/ (ContainsText(mime) /\ ext \in {".md", ".txt"})

AllAllowed(files) == \A i \in 1..Len(files) : IsAllowed(files[i].ext, files[i].mime)

RequestValid(theme, detail, audience, files) ==
    /\ IsValidTheme(theme)
    /\ IsValidSlideDetail(detail)
    /\ IsValidAudience(audience)
    /\ Len(files) > 0
    /\ AllAllowed(files)

FileSeqs == UNION { [1..n -> SampleFiles] : n \in 0..MaxFiles }

\* no request is under validation
NoReq == [theme |-> "", detail |-> "", audience |-> "", files |-> <<>>]

\* the requests of the validation scenario: every valid value of each field,
\* the empty string and a value outside the list; no file or one file with
\* any pairing of an extension (strings.ToLower(filepath.Ext(name))) and a
\* type that http.DetectContentType can return
CheckThemes    == ValidThemes \cup {"", "bogus"}
CheckDetails   == ValidSlideDetails \cup {"", "huge"}
CheckAudiences == ValidAudiences \cup {"", "aliens"}
CheckExts      == {".pdf", ".md", ".txt", ".exe", ""}
CheckMimes     == {"application/pdf", "text/plain", "text/html", "text/xml",
                   "application/octet-stream", "image/png"}
CheckFiles     == [ext : CheckExts, mime : CheckMimes]
CheckFileSeqs  == {<<>>} \cup {<<f>> : f \in CheckFiles}
Requests       == [theme : CheckThemes, detail : CheckDetails,
                   audience : CheckAudiences, files : CheckFileSeqs]

----------------------------------------------------------------------------
(* Cloud Tasks variant: GenerateSlides -> AddJob (api), ProcessSlides
   (slides-service) *)

GenErrors == {"documents are too large to process", "upstream failure", "render failure"}

\* a failure message that leaves the error text out
GenFailMsgPlain(e) == "Failed to generate slides"

\* "Failed to generate slides: " + err
GenFailMsg(e) ==
    CASE e = "documents are too large to process" ->
             "Failed to generate slides: documents are too large to process"
      [] e = "upstream failure" -> "Failed to generate slides: upstream failure"
      [] e = "render failure"   -> "Failed to generate slides: render failure"
      [] OTHER -> "Failed to generate slides: status update failed"

\* AddJob of the api service for a request that passed validation: n files,
\* setOk: the Set of the job document succeeds; upFail: index of the first
\* file whose upload fails (0: none); taskOk: CreateTask succeeds; updOk: the
\* write of status failed succeeds.
AddJobTasks(j, n, setOk, upFail, taskOk, updOk) ==
    IF ~setOk
    THEN /\ submitResp' = [submitResp EXCEPT ![j] = "unavailable"]
         /\ UNCHANGED <<jobStore, blobs, memStatus, taskFiles>>
    ELSE LET created == [jobStore EXCEPT ![j] = NewJobDoc]
             staged  == IF upFail = 0 THEN 1..n ELSE 1..(upFail - 1)
             failMsg == IF upFail # 0 THEN "Failed to upload file" ELSE "Failed to queue job"
         IN  /\ blobs' = [blobs EXCEPT ![j] = staged]
             /\ IF upFail # 0 \/ ~taskOk
                THEN /\ jobStore' = StatusUpdate(created, j, StatusFailed, failMsg, updOk)[1]
                     /\ memStatus' = [memStatus EXCEPT ![j] = StatusFailed]
                     /\ submitResp' = [submitResp EXCEPT ![j] = "unavailable"]
                     /\ UNCHANGED taskFiles
                ELSE /\ jobStore' = created
                     /\ memStatus' = [memStatus EXCEPT ![j] = StatusQueued]
                     /\ submitResp' = [submitResp EXCEPT ![j] = "accepted"]
                     /\ taskFiles' = [taskFiles EXCEPT ![j] = n]

\* the submit handler: validation, then AddJob; 400 on a validation error,
\* 503 on an AddJob error, 202 otherwise
Submit(j, theme, detail, audience, files) ==
    /\ variant = "tasks"
    /\ submitResp[j] = "none"
    /\ IF ~RequestValid(theme, detail, audience, files)
       THEN /\ submitResp' = [submitResp EXCEPT ![j] = "bad_request"]
            /\ UNCHANGED <<jobStore, blobs, memStatus, taskFiles>>
       ELSE \E setOk \in BOOLEAN, upFail \in 0..Len(files),
               taskOk \in BOOLEAN, updOk \in BOOLEAN :
               AddJobTasks(j, Len(files), setOk, upFail, taskOk, updOk)
    /\ UNCHANGED <<variant, reqVars, lockVars, stageVars, now, getResp, watchVars, histVars, resultStore, deliveries, pcT, genStep,
                   lastResp, reported, completeErr, procCount,
                   crashed, memVars, subVars>>

\* a submission with any of the sample requests
GenerateSlides(j) ==
    /\ variant = "tasks"
    /\ submitResp[j] = "none"
    /\ \E theme \in SampleThemes, detail \in SampleDetails,
          audience \in SampleAudiences, files \in FileSeqs :
          Submit(j, theme, detail, audience, files)

\* ProcessSlides ends with an error answer after writing status failed
\* (the error of that write is dropped)
\* why is the step that failed, err the generator's error text, fault tells
\* that a status write was already rejected in this step
FailRun(j, store, message, updOk, why, err, fault) ==
    /\ jobStore' = StatusUpdate(store, j, StatusFailed, message, updOk)[1]
    /\ lastResp' = [lastResp EXCEPT ![j] = 500]
    /\ pcT' = [pcT EXCEPT ![j] = "idle"]
    /\ runEnd' = [runEnd EXCEPT ![j] = [why |-> why, err |-> err]]
    /\ storeFault' = [storeFault EXCEPT ![j] =
                         @ \/ fault \/ StatusUpdate(store, j, StatusFailed, message, updOk)[2]]

\* ProcessSlides, start: statusUpdateFn("Processing slides"); its error ends
\* the request with 500
PS_Start(j) ==
    /\ variant = "tasks"
    /\ taskFiles[j] >= 0
    /\ pcT[j] = "idle"
    /\ deliveries[j] < MaxDeliveries
    /\ deliveries' = [deliveries EXCEPT ![j] = @ + 1]
    /\ genStep' = [genStep EXCEPT ![j] = 0]
    /\ reported' = [reported EXCEPT ![j] = FALSE]
    /\ completeErr' = [completeErr EXCEPT ![j] = FALSE]
    /\ \E ok \in BOOLEAN :
          LET r == StatusUpdate(jobStore, j, StatusProcessing, "Processing slides", ok)
          IN  /\ jobStore' = r[1]
              /\ storeFault' = [storeFault EXCEPT ![j] = r[2]]
              /\ IF r[2]
                 THEN /\ lastResp' = [lastResp EXCEPT ![j] = 500]
                      /\ runEnd' = [runEnd EXCEPT ![j] = [why |-> "start", err |-> ""]]
                      /\ UNCHANGED pcT
                 ELSE /\ pcT' = [pcT EXCEPT ![j] = "download"]
                      /\ runEnd' = [runEnd EXCEPT ![j] = NoEnd]
                      /\ UNCHANGED lastResp
    /\ cleanupTried' = [cleanupTried EXCEPT ![j] = FALSE]
    /\ UNCHANGED <<variant, reqVars, lockVars, stageVars, now, getResp, watchVars, everCompleted, resultStore, blobs, submitResp, memStatus,
                   taskFiles, procCount,
                   crashed, memVars, subVars>>

\* the download loop: a reference whose object is gone fails; any download
\* may fail
PS_Download(j) ==
    /\ variant = "tasks"
    /\ pcT[j] = "download"
    /\ LET refs    == 1..taskFiles[j]
           missing == refs \ blobs[j]
       IN  \/ /\ missing = {}
              /\ pcT' = [pcT EXCEPT ![j] = "generate"]
              /\ UNCHANGED <<jobStore, lastResp, runEnd, storeFault>>
           \/ /\ refs # {}
              /\ \E updOk \in BOOLEAN :
                    FailRun(j, jobStore, "Failed to download file", updOk,
                            "download", "", FALSE)
    /\ UNCHANGED <<variant, reqVars, lockVars, stageVars, now, getResp, watchVars, cleanupTried, everCompleted, resultStore, blobs, submitResp, memStatus,
                   taskFiles, deliveries, genStep, reported, completeErr, procCount,
                   crashed, memVars, subVars>>

\* one progress callback of the generator: a failed write makes the generator
\* return that error
PS_Progress(j) ==
    /\ variant = "tasks"
    /\ pcT[j] = "generate"
    /\ genStep[j] < NumProgress
    /\ \E ok \in BOOLEAN, updOk \in BOOLEAN :
          LET r == StatusUpdate(jobStore, j, StatusProcessing,
                                ProgressMsg(genStep[j] + 1), ok)
          IN  IF r[2]
              THEN /\ FailRun(j, r[1], GenFailMsg("status update failed"), updOk,
                              "callback", "status update failed", TRUE)
                   /\ UNCHANGED genStep
              ELSE /\ jobStore' = r[1]
                   /\ genStep' = [genStep EXCEPT ![j] = @ + 1]
                   /\ UNCHANGED <<pcT, lastResp, runEnd, storeFault>>
    /\ UNCHANGED <<variant, reqVars, lockVars, stageVars, now, getResp, watchVars, cleanupTried, everCompleted, resultStore, blobs, submitResp, memStatus,
                   taskFiles, deliveries, reported, completeErr, procCount,
                   crashed, memVars, subVars>>

\* the generator fails on its own (upload to the model, token ceiling, model
\* call, renderer)
PS_GenFail(j) ==
    /\ variant = "tasks"
    /\ pcT[j] = "generate"
    /\ genStep[j] >= 1
    /\ \E e \in GenErrors, updOk \in BOOLEAN :
          /\ (e = "documents are too large to process") => genStep[j] = 3
          /\ FailRun(j, jobStore, GenFailMsg(e), updOk, "generator", e, FALSE)
    /\ UNCHANGED <<variant, reqVars, lockVars, stageVars, now, getResp, watchVars, cleanupTried, everCompleted, resultStore, blobs, submitResp, memStatus,
                   taskFiles, deliveries, genStep, reported, completeErr, procCount,
                   crashed, memVars, subVars>>

\* the generator returned the artifact: storeResult; its error is answered
\* with 500 after writing status failed
PS_Store(j) ==
    /\ variant = "tasks"
    /\ pcT[j] = "generate"
    /\ genStep[j] = NumProgress
    /\ \E ok \in BOOLEAN, updOk \in BOOLEAN :
          LET r == StoreResult(resultStore, j, deliveries[j], ok)
          IN  /\ resultStore' = r[1]
              /\ IF r[2]
                 THEN FailRun(j, jobStore, "Failed to store result", updOk,
                              "store", "", FALSE)
                 ELSE /\ pcT' = [pcT EXCEPT ![j] = "cleanup"]
                      /\ UNCHANGED <<jobStore, lastResp, runEnd, storeFault>>
    /\ UNCHANGED <<variant, reqVars, lockVars, stageVars, now, getResp, watchVars, cleanupTried, everCompleted, blobs, submitResp, memStatus, taskFiles,
                   deliveries, genStep, reported, completeErr, procCount,
                   crashed, memVars, subVars>>

\* a cleanup loop that gives up on the first failed delete and ends the run
\* as failed
PS_CleanupStrict(j) ==
    /\ variant = "tasks"
    /\ pcT[j] = "cleanup"
    /\ \E deleted \in SUBSET (blobs[j] \cap (1..taskFiles[j])), updOk \in BOOLEAN :
          /\ blobs' = [blobs EXCEPT ![j] = @ \ deleted]
          /\ IF deleted = blobs[j] \cap (1..taskFiles[j])
             THEN /\ pcT' = [pcT EXCEPT ![j] = "complete"]
                  /\ UNCHANGED <<jobStore, lastResp, runEnd, storeFault>>
             ELSE FailRun(j, jobStore, "Failed to delete file", updOk, "cleanup", "", FALSE)
    /\ cleanupTried' = [cleanupTried EXCEPT ![j] = TRUE]
    /\ UNCHANGED <<variant, reqVars, lockVars, stageVars, now, getResp, watchVars, everCompleted, resultStore, submitResp, memStatus,
                   taskFiles, deliveries, genStep, reported, completeErr, procCount,
                   crashed, memVars, subVars>>

\* the cleanup loop: every reference is tried, a failed delete is logged
PS_Cleanup(j) ==
    /\ variant = "tasks"
    /\ pcT[j] = "cleanup"
    /\ \E deleted \in SUBSET (blobs[j] \cap (1..taskFiles[j])) :
          blobs' = [blobs EXCEPT ![j] = @ \ deleted]
    /\ pcT' = [pcT EXCEPT ![j] = "complete"]
    /\ cleanupTried' = [cleanupTried EXCEPT ![j] = TRUE]
    /\ UNCHANGED <<variant, reqVars, lockVars, stageVars, now, getResp, watchVars, runEnd, storeFault, everCompleted, jobStore, resultStore, submitResp, memStatus,
                   taskFiles, deliveries, genStep, lastResp, reported, completeErr, procCount,
                   crashed, memVars, subVars>>

\* setJobCompleted; 200 and the success log only when the write succeeded
PS_Complete(j) ==
    /\ variant = "tasks"
    /\ pcT[j] = "complete"
    /\ \E ok \in BOOLEAN :
          LET r == CompletedUpdate(jobStore, j, "Slides generated successfully", ok)
          IN  /\ jobStore' = r[1]
              /\ lastResp' = [lastResp EXCEPT ![j] = IF r[2] THEN 500 ELSE 200]
              /\ reported' = [reported EXCEPT ![j] = ~r[2]]
              /\ completeErr' = [completeErr EXCEPT ![j] = r[2]]
              /\ storeFault' = [storeFault EXCEPT ![j] = @ \/ r[2]]
              /\ runEnd' = [runEnd EXCEPT ![j] =
                               [why |-> IF r[2] THEN "complete" ELSE "ok", err |-> ""]]
              /\ everCompleted' = [everCompleted EXCEPT ![j] = @ \/ ~r[2]]
    /\ pcT' = [pcT EXCEPT ![j] = "idle"]
    /\ UNCHANGED <<variant, reqVars, lockVars, stageVars, now, getResp, watchVars, cleanupTried, resultStore, blobs, submitResp, memStatus,
                   taskFiles, deliveries, genStep, procCount,
                   crashed, memVars, subVars>>

----------------------------------------------------------------------------
(* In-process Firestore variant: AddJob starts `go processJob` *)

\* AddJob: Set of the job document; on success the goroutine is started
AddJobProc(j) ==
    /\ variant = "proc"
    /\ submitResp[j] = "none"
    /\ \E setOk \in BOOLEAN :
          IF setOk
          THEN /\ jobStore' = [jobStore EXCEPT ![j] = NewJobDoc]
               /\ memStatus' = [memStatus EXCEPT ![j] = StatusQueued]
               /\ submitResp' = [submitResp EXCEPT ![j] = "accepted"]
               /\ pcT' = [pcT EXCEPT ![j] = "start"]
               /\ procCount' = [procCount EXCEPT ![j] = @ + 1]
          ELSE /\ submitResp' = [submitResp EXCEPT ![j] = "unavailable"]
               /\ UNCHANGED <<jobStore, memStatus, pcT, procCount>>
    /\ UNCHANGED <<variant, reqVars, lockVars, stageVars, now, getResp, watchVars, histVars, resultStore, blobs, taskFiles, deliveries,
                   genStep, lastResp, reported, completeErr,
                   crashed, memVars, subVars>>

\* updateJobStatus of the in-process service: the write's error is logged,
\* the in-memory job is updated either way
UpdateJobStatusProc(j, status, message, ok) ==
    /\ jobStore' = StatusUpdate(jobStore, j, status, message, ok)[1]
    /\ memStatus' = [memStatus EXCEPT ![j] = status]
    /\ storeFault' = [storeFault EXCEPT ![j] =
                         @ \/ StatusUpdate(jobStore, j, status, message, ok)[2]]

\* processJob, first statement
PJ_Start(j) ==
    /\ variant = "proc"
    /\ pcT[j] = "start"
    /\ \E ok \in BOOLEAN :
          UpdateJobStatusProc(j, StatusProcessing, "Processing slides", ok)
    /\ pcT' = [pcT EXCEPT ![j] = "generate"]
    /\ genStep' = [genStep EXCEPT ![j] = 0]
    /\ UNCHANGED <<variant, reqVars, lockVars, stageVars, now, getResp, watchVars, runEnd, cleanupTried, everCompleted, resultStore, blobs, submitResp, taskFiles,
                   deliveries, lastResp, reported, completeErr, procCount,
                   crashed, memVars, subVars>>

\* one progress callback: statusUpdateFn always returns nil
PJ_Progress(j) ==
    /\ variant = "proc"
    /\ pcT[j] = "generate"
    /\ genStep[j] < NumProgress
    /\ \E ok \in BOOLEAN :
          UpdateJobStatusProc(j, StatusProcessing, ProgressMsg(genStep[j] + 1), ok)
    /\ genStep' = [genStep EXCEPT ![j] = @ + 1]
    /\ UNCHANGED <<variant, reqVars, lockVars, stageVars, now, getResp, watchVars, runEnd, cleanupTried, everCompleted, resultStore, blobs, submitResp, taskFiles,
                   deliveries, pcT, lastResp, reported, completeErr, procCount,
                   crashed, memVars, subVars>>

\* the generator returns an error
PJ_GenFail(j) ==
    /\ variant = "proc"
    /\ pcT[j] = "generate"
    /\ genStep[j] >= 1
    /\ \E e \in GenErrors, ok \in BOOLEAN :
          /\ (e = "documents are too large to process") => genStep[j] = 3
          /\ UpdateJobStatusProc(j, StatusFailed, GenFailMsg(e), ok)
          /\ runEnd' = [runEnd EXCEPT ![j] = [why |-> "generator", err |-> e]]
    /\ pcT' = [pcT EXCEPT ![j] = "done"]
    /\ UNCHANGED <<variant, reqVars, lockVars, stageVars, now, getResp, watchVars, cleanupTried, everCompleted, resultStore, blobs, submitResp, taskFiles,
                   deliveries, genStep, lastResp, reported, completeErr, procCount,
                   crashed, memVars, subVars>>

\* storeResult after a successful generation: the returned error is dropped
PJ_Store(j) ==
    /\ variant = "proc"
    /\ pcT[j] = "generate"
    /\ genStep[j] = NumProgress
    /\ \E ok \in BOOLEAN :
          resultStore' = StoreResult(resultStore, j, procCount[j], ok)[1]
    /\ pcT' = [pcT EXCEPT ![j] = "complete"]
    /\ UNCHANGED <<variant, reqVars, lockVars, stageVars, now, getResp, watchVars, histVars, jobStore, blobs, submitResp, memStatus, taskFiles,
                   deliveries, genStep, lastResp, reported, completeErr, procCount,
                   crashed, memVars, subVars>>

\* setJobCompleted of the in-process service: the write's error is logged,
\* the in-memory job becomes completed and the completion is logged
PJ_Complete(j) ==
    /\ variant = "proc"
    /\ pcT[j] = "complete"
    /\ \E ok \in BOOLEAN :
          LET r == CompletedUpdate(jobStore, j, "Slides generated successfully", ok)
          IN  /\ jobStore' = r[1]
              /\ completeErr' = [completeErr EXCEPT ![j] = r[2]]
              /\ storeFault' = [storeFault EXCEPT ![j] = @ \/ r[2]]
              /\ runEnd' = [runEnd EXCEPT ![j] =
                               [why |-> IF r[2] THEN "complete" ELSE "ok", err |-> ""]]
              /\ everCompleted' = [everCompleted EXCEPT ![j] = @ \/ ~r[2]]
    /\ memStatus' = [memStatus EXCEPT ![j] = StatusCompleted]
    /\ reported' = [reported EXCEPT ![j] = TRUE]
    /\ pcT' = [pcT EXCEPT ![j] = "done"]
    /\ UNCHANGED <<variant, reqVars, lockVars, stageVars, now, getResp, watchVars, cleanupTried, resultStore, blobs, submitResp, taskFiles,
                   deliveries, genStep, lastResp, procCount,
                   crashed, memVars, subVars>>

----------------------------------------------------------------------------
(* In-memory variant: AddJob, the worker pool, updateJobStatus *)

\* AddJob up to the map insert: the fullness check, then the job is created
\* and put in s.jobs; the send on s.queue is a later step
AJ_Check(j) ==
    /\ variant = "mem"
    /\ ~crashed
    /\ addPc[j] = "none"
    /\ IF Len(queue) >= QueueCap
       THEN /\ addPc' = [addPc EXCEPT ![j] = "busy"]
            /\ UNCHANGED <<jobsMap, memStatus>>
       ELSE /\ addPc' = [addPc EXCEPT ![j] = "send"]
            /\ jobsMap' = jobsMap \cup {j}
            /\ memStatus' = [memStatus EXCEPT ![j] = StatusQueued]
    /\ UNCHANGED <<variant, reqVars, lockVars, stageVars, now, getResp, watchVars, histVars, storeVars, submitResp, taskFiles, deliveries, pcT,
                   genStep, lastResp, reported, completeErr, procCount, crashed,
                   queue, workerJob, mVer, mUrl, removePending, subVars>>

\* s.queue <- job: a channel send, which waits while the channel is full
AJ_Send(j) ==
    /\ variant = "mem"
    /\ ~crashed
    /\ addPc[j] = "send"
    /\ Len(queue) < QueueCap
    /\ queue' = Append(queue, j)
    /\ addPc' = [addPc EXCEPT ![j] = "done"]
    /\ UNCHANGED <<variant, reqVars, lockVars, stageVars, now, getResp, watchVars, histVars, storeVars, dispVars, crashed, jobsMap, workerJob,
                   mVer, mUrl, removePending, subVars>>

\* a receive that leaves the head in the channel
DequeuePeek(q) == q

\* what a receive leaves in the channel
Dequeue(q) == Tail(q)

\* a worker that takes the next job from the channel while its processJob
\* is still running
W_RecvWhileBusy(w) ==
    /\ variant = "mem"
    /\ ~crashed
    /\ queue # <<>>
    /\ workerJob' = [workerJob EXCEPT ![w] = Head(queue)]
    /\ queue' = Dequeue(queue)
    /\ pcT' = [pcT EXCEPT ![Head(queue)] = "start"]
    /\ procCount' = [procCount EXCEPT ![Head(queue)] = @ + 1]
    /\ UNCHANGED <<variant, reqVars, lockVars, stageVars, now, getResp, watchVars, histVars, storeVars, submitResp, memStatus, taskFiles,
                   deliveries, genStep, lastResp, reported, completeErr, crashed,
                   jobsMap, addPc, mVer, mUrl, removePending, subVars>>

\* for job := range s.queue: a worker takes the head of the channel and
\* calls processJob
W_Recv(w) ==
    /\ variant = "mem"
    /\ ~crashed
    /\ workerJob[w] = 0
    /\ queue # <<>>
    /\ workerJob' = [workerJob EXCEPT ![w] = Head(queue)]
    /\ queue' = Dequeue(queue)
    /\ pcT' = [pcT EXCEPT ![Head(queue)] = "start"]
    /\ procCount' = [procCount EXCEPT ![Head(queue)] = @ + 1]
    /\ UNCHANGED <<variant, reqVars, lockVars, stageVars, now, getResp, watchVars, histVars, storeVars, submitResp, memStatus, taskFiles,
                   deliveries, genStep, lastResp, reported, completeErr, crashed,
                   jobsMap, addPc, mVer, mUrl, removePending, subVars>>

\* select { case ch <- update: default: } on an open channel
SendNonBlocking(ch, u) == IF Len(ch) < ChanCap THEN Append(ch, u) ELSE ch

\* a fan-out that delivers only while no registered channel is full
FanoutStopAtFull(chs, targets, u) ==
    [s \in Subs |-> IF s \in targets /\ \A t \in targets : Len(chs[t]) < ChanCap
                    THEN Append(chs[s], u) ELSE chs[s]]

\* for ch := range job.Subscribers: one non-blocking send per subscriber
Fanout(chs, targets, u) ==
    [s \in Subs |-> IF s \in targets THEN SendNonBlocking(chs[s], u) ELSE chs[s]]

\* updateJobStatus: under job.mu the fields are written and the update is
\* sent to every registered channel; a terminal status starts removeJob.
\* A send on a closed channel panics.
UpdateJobStatusMem(j, status, setUrl) ==
    LET u == [status |-> status, ver |-> mVer[j] + 1, url |-> mUrl[j] \/ setUrl,
              src |-> "worker"]
    IN  /\ memStatus' = [memStatus EXCEPT ![j] = status]
        /\ mVer' = [mVer EXCEPT ![j] = @ + 1]
        /\ mUrl' = [mUrl EXCEPT ![j] = @ \/ setUrl]
        /\ IF \E s \in jobSubs[j] : chanClosed[s]
           THEN /\ crashed' = TRUE
                /\ UNCHANGED <<chan, dropped, removePending>>
           ELSE /\ chan' = Fanout(chan, jobSubs[j], u)
                /\ dropped' = [s \in Subs |->
                                 IF s \in jobSubs[j] /\ Len(chan[s]) >= ChanCap
                                 THEN dropped[s] + 1 ELSE dropped[s]]
                /\ removePending' = [removePending EXCEPT ![j] = @ \/ Terminal(status)]
                /\ UNCHANGED crashed

\* the status the progress callback of processJob writes for a status string
CallbackStatus(statusStr) ==
    CASE statusStr = "processing" -> StatusProcessing
      [] statusStr = "completed"  -> StatusCompleted
      [] statusStr = "failed"     -> StatusFailed
      [] OTHER                    -> StatusProcessing

\* the status strings the generator passes to its progress callback
GenStatusStrs == {"processing"}

\* processJob, first statement
W_Start(w) ==
    /\ variant = "mem"
    /\ ~crashed
    /\ workerJob[w] # 0
    /\ pcT[workerJob[w]] = "start"
    /\ UpdateJobStatusMem(workerJob[w], StatusProcessing, FALSE)
    /\ pcT' = [pcT EXCEPT ![workerJob[w]] = "generate"]
    /\ genStep' = [genStep EXCEPT ![workerJob[w]] = 0]
    /\ UNCHANGED <<variant, reqVars, lockVars, stageVars, now, getResp, watchVars, histVars, storeVars, submitResp, taskFiles, deliveries,
                   lastResp, reported, completeErr, procCount, jobsMap, queue,
                   addPc, workerJob, jobSubs, subPc, chanClosed, snap, events,
                   regVer, clientGone>>

\* one progress callback of the generator
W_Progress(w) ==
    /\ variant = "mem"
    /\ ~crashed
    /\ workerJob[w] # 0
    /\ pcT[workerJob[w]] = "generate"
    /\ genStep[workerJob[w]] < MaxProgress
    /\ \E str \in GenStatusStrs :
          UpdateJobStatusMem(workerJob[w], CallbackStatus(str), FALSE)
    /\ genStep' = [genStep EXCEPT ![workerJob[w]] = @ + 1]
    /\ UNCHANGED <<variant, reqVars, lockVars, stageVars, now, getResp, watchVars, histVars, storeVars, submitResp, taskFiles, deliveries, pcT,
                   lastResp, reported, completeErr, procCount, jobsMap, queue,
                   addPc, workerJob, jobSubs, subPc, chanClosed, snap, events,
                   regVer, clientGone>>

\* a processJob that returns without a final status: the job is left in
\* processing and the worker is free again
W_FinishNoFinal(w) ==
    /\ variant = "mem"
    /\ ~crashed
    /\ workerJob[w] # 0
    /\ pcT[workerJob[w]] = "generate"
    /\ UpdateJobStatusMem(workerJob[w], StatusProcessing, FALSE)
    /\ pcT' = [pcT EXCEPT ![workerJob[w]] = "done"]
    /\ workerJob' = [workerJob EXCEPT ![w] = 0]
    /\ UNCHANGED <<variant, reqVars, lockVars, stageVars, now, getResp, watchVars, histVars, storeVars, submitResp, taskFiles, deliveries,
                   genStep, lastResp, reported, completeErr, procCount, jobsMap,
                   queue, addPc, jobSubs, subPc, chanClosed, snap, events, regVer,
                   clientGone>>

\* the generator returns: failed on an error, completed with the result URL
\* otherwise; processJob returns and the worker is free again
W_Finish(w) ==
    /\ variant = "mem"
    /\ ~crashed
    /\ workerJob[w] # 0
    /\ pcT[workerJob[w]] = "generate"
    /\ \E err \in BOOLEAN :
          IF err
          THEN UpdateJobStatusMem(workerJob[w], StatusFailed, FALSE)
          ELSE UpdateJobStatusMem(workerJob[w], StatusCompleted, TRUE)
    /\ pcT' = [pcT EXCEPT ![workerJob[w]] = "done"]
    /\ workerJob' = [workerJob EXCEPT ![w] = 0]
    /\ UNCHANGED <<variant, reqVars, lockVars, stageVars, now, getResp, watchVars, histVars, storeVars, submitResp, taskFiles, deliveries,
                   genStep, lastResp, reported, completeErr, procCount, jobsMap,
                   queue, addPc, jobSubs, subPc, chanClosed, snap, events, regVer,
                   clientGone>>

\* go s.removeJob(job)
RemoveJob(j) ==
    /\ variant = "mem"
    /\ ~crashed
    /\ removePending[j]
    /\ jobsMap' = jobsMap \ {j}
    /\ removePending' = [removePending EXCEPT ![j] = FALSE]
    /\ UNCHANGED <<variant, reqVars, lockVars, stageVars, now, getResp, watchVars, histVars, storeVars, dispVars, crashed, queue, addPc,
                   workerJob, mVer, mUrl, subVars>>

----------------------------------------------------------------------------
(* In-memory variant: StreamSlideStatus, Subscribe, Unsubscribe *)

\* the job every stream handler of the model asks for
FanJob == CHOOSE j \in MemJobs : \A k \in MemJobs : j <= k

Event(type, u) == [type |-> type, u |-> u]

Pings(s) == Len(SelectSeq(events[s], LAMBDA e : e.type = "ping"))

\* Unsubscribe: nothing happens when the job is no longer in s.jobs
Unsubscribe(subs, j, s) ==
    IF j \in jobsMap THEN [subs EXCEPT ![j] = @ \ {s}] ELSE subs

\* StreamSlideStatus up to the creation of the channel: GetJob, 404 for an
\* unknown job, the plain JSON answer for a client that did not ask for SSE
S_Open(s) ==
    /\ variant = "mem"
    /\ ~crashed
    /\ subPc[s] = "none"
    /\ IF FanJob \notin jobsMap
       THEN /\ events' = [events EXCEPT ![s] = <<Event("404", NoUpdate)>>]
            /\ subPc' = [subPc EXCEPT ![s] = "done"]
       ELSE \E wantsSSE \in BOOLEAN :
              IF wantsSSE
              THEN /\ subPc' = [subPc EXCEPT ![s] = "lookup"]
                   /\ UNCHANGED events
              ELSE /\ events' = [events EXCEPT ![s] =
                         <<Event("json", [status |-> memStatus[FanJob], ver |-> mVer[FanJob],
                                         url |-> mUrl[FanJob], src |-> "sub"])>>]
                   /\ subPc' = [subPc EXCEPT ![s] = "done"]
    /\ UNCHANGED <<variant, reqVars, lockVars, stageVars, now, getResp, watchVars, histVars, storeVars, dispVars, crashed, memVars, jobSubs,
                   chan, chanClosed, snap, dropped, regVer, clientGone>>

\* Subscribe, the lookup in s.jobs: an unknown job ends the handler with 404
\* and the deferred close of the channel
S_Lookup(s) ==
    /\ variant = "mem"
    /\ ~crashed
    /\ subPc[s] = "lookup"
    /\ IF FanJob \in jobsMap
       THEN /\ subPc' = [subPc EXCEPT ![s] = "register"]
            /\ UNCHANGED <<events, chanClosed>>
       ELSE /\ events' = [events EXCEPT ![s] = Append(@, Event("404", NoUpdate))]
            /\ chanClosed' = [chanClosed EXCEPT ![s] = TRUE]
            /\ subPc' = [subPc EXCEPT ![s] = "done"]
    /\ UNCHANGED <<variant, reqVars, lockVars, stageVars, now, getResp, watchVars, histVars, storeVars, dispVars, crashed, memVars, jobSubs,
                   chan, snap, dropped, regVer, clientGone>>

\* Subscribe, job.Subscribers[updates] = true under job.mu
S_Register(s) ==
    /\ variant = "mem"
    /\ ~crashed
    /\ subPc[s] = "register"
    /\ jobSubs' = [jobSubs EXCEPT ![FanJob] = @ \cup {s}]
    /\ regVer' = [regVer EXCEPT ![s] = mVer[FanJob]]
    /\ subPc' = [subPc EXCEPT ![s] = "read"]
    /\ UNCHANGED <<variant, reqVars, lockVars, stageVars, now, getResp, watchVars, histVars, storeVars, dispVars, crashed, memVars, chan,
                   chanClosed, snap, events, dropped, clientGone>>

\* Subscribe, the initial JobUpdate is built from the job's fields after
\* job.mu was released
S_Read(s) ==
    /\ variant = "mem"
    /\ ~crashed
    /\ subPc[s] = "read"
    /\ snap' = [snap EXCEPT ![s] = [status |-> memStatus[FanJob], ver |-> mVer[FanJob],
                                    url |-> mUrl[FanJob], src |-> "sub"]]
    /\ subPc' = [subPc EXCEPT ![s] = "send"]
    /\ UNCHANGED <<variant, reqVars, lockVars, stageVars, now, getResp, watchVars, histVars, storeVars, dispVars, crashed, memVars, jobSubs,
                   chan, chanClosed, events, dropped, regVer, clientGone>>

\* Subscribe, updates <- JobUpdate{...}: a channel send, which waits while
\* the channel is full
S_Send(s) ==
    /\ variant = "mem"
    /\ ~crashed
    /\ subPc[s] = "send"
    /\ Len(chan[s]) < ChanCap
    /\ chan' = [chan EXCEPT ![s] = Append(@, snap[s])]
    /\ subPc' = [subPc EXCEPT ![s] = "loop"]
    /\ UNCHANGED <<variant, reqVars, lockVars, stageVars, now, getResp, watchVars, histVars, storeVars, dispVars, crashed, memVars, jobSubs,
                   chanClosed, snap, events, dropped, regVer, clientGone>>

\* the stream loop receives an update and emits it; a terminal update is
\* followed by the close event, Unsubscribe and the deferred close
S_Recv(s) ==
    /\ variant = "mem"
    /\ ~crashed
    /\ subPc[s] = "loop"
    /\ chan[s] # <<>>
    /\ chan' = [chan EXCEPT ![s] = Tail(@)]
    /\ IF Terminal(Head(chan[s]).status)
       THEN /\ events' = [events EXCEPT ![s] =
                             @ \o <<Event("update", Head(chan[s])),
                                    Event("close", Head(chan[s]))>>]
            /\ jobSubs' = Unsubscribe(jobSubs, FanJob, s)
            /\ chanClosed' = [chanClosed EXCEPT ![s] = TRUE]
            /\ subPc' = [subPc EXCEPT ![s] = "done"]
       ELSE /\ events' = [events EXCEPT ![s] = Append(@, Event("update", Head(chan[s])))]
            /\ UNCHANGED <<jobSubs, chanClosed, subPc>>
    /\ UNCHANGED <<variant, reqVars, lockVars, stageVars, now, getResp, watchVars, histVars, storeVars, dispVars, crashed, memVars, snap,
                   dropped, regVer, clientGone>>

\* 30 s without an update: the heartbeat
S_Ping(s) ==
    /\ variant = "mem"
    /\ ~crashed
    /\ subPc[s] = "loop"
    /\ chan[s] = <<>>
    /\ Pings(s) < MaxPings
    /\ events' = [events EXCEPT ![s] = Append(@, Event("ping", NoUpdate))]
    /\ UNCHANGED <<variant, reqVars, lockVars, stageVars, now, getResp, watchVars, histVars, storeVars, dispVars, crashed, memVars, jobSubs,
                   subPc, chan, chanClosed, snap, dropped, regVer, clientGone>>

\* the client goes away
ClientClose(s) ==
    /\ variant = "mem"
    /\ ~crashed
    /\ subPc[s] \in {"lookup", "register", "read", "send", "loop"}
    /\ ~clientGone[s]
    /\ clientGone' = [clientGone EXCEPT ![s] = TRUE]
    /\ UNCHANGED <<variant, reqVars, lockVars, stageVars, now, getResp, watchVars, histVars, storeVars, dispVars, crashed, memVars, jobSubs,
                   subPc, chan, chanClosed, snap, events, dropped, regVer>>

\* the step function finds the request context cancelled: Unsubscribe, then
\* the deferred close
S_GoneStep(s) ==
    /\ variant = "mem"
    /\ ~crashed
    /\ subPc[s] = "loop"
    /\ clientGone[s]
    /\ jobSubs' = Unsubscribe(jobSubs, FanJob, s)
    /\ chanClosed' = [chanClosed EXCEPT ![s] = TRUE]
    /\ subPc' = [subPc EXCEPT ![s] = "done"]
    /\ UNCHANGED <<variant, reqVars, lockVars, stageVars, now, getResp, watchVars, histVars, storeVars, dispVars, crashed, memVars, chan,
                   snap, events, dropped, regVer, clientGone>>

\* gin's Stream finds the client gone before it calls the step function
\* again and returns: only the deferred close runs
S_GoneStream(s) ==
    /\ variant = "mem"
    /\ ~crashed
    /\ subPc[s] = "loop"
    /\ clientGone[s]
    /\ chanClosed' = [chanClosed EXCEPT ![s] = TRUE]
    /\ subPc' = [subPc EXCEPT ![s] = "done"]
    /\ UNCHANGED <<variant, reqVars, lockVars, stageVars, now, getResp, watchVars, histVars, storeVars, dispVars, crashed, memVars, jobSubs,
                   chan, snap, events, dropped, regVer, clientGone>>

----------------------------------------------------------------------------
(* Firestore variants: StreamSlideStatus with its WatchJob goroutine *)

\* the job the stream handler of the model asks for, and that handler
StreamJob  == CHOOSE j \in TaskJobs : \A k \in TaskJobs : j <= k
StreamSubs == {"a"}

\* the variants whose StreamSlideStatus runs WatchJob on the Firestore document
FirestoreVariants == {"tasks", "proc"}

\* GetJob of the api service: nil for a missing or expired document (the
\* expired one is deleted), else the job with the result URL of a completed
\* job when the result document can be read
\* an expiry check that takes a record away at its expiry time already
ExpiredAtDeadline(doc) == doc.expiresAt > 0 /\ now >= doc.expiresAt

\* an expiry check that lets a record live one lifetime longer
ExpiredLate(doc) == doc.expiresAt > 0 /\ now > doc.expiresAt + JobTTL

Expired(doc) == doc.expiresAt > 0 /\ now > doc.expiresAt

GetJob(j) ==
    IF ~jobStore[j].exists \/ Expired(jobStore[j])
    THEN [found |-> FALSE, u |-> NoUpdate]
    ELSE [found |-> TRUE,
          u |-> [status |-> jobStore[j].status, ver |-> jobStore[j].message,
                 url |-> jobStore[j].status = StatusCompleted /\ resultStore[j].exists,
                 src |-> "sub"]]

\* the Delete of an expired document may fail (delOk = FALSE): it is logged
GetJobStore(j, delOk) ==
    IF jobStore[j].exists /\ Expired(jobStore[j]) /\ delOk
    THEN [jobStore EXCEPT ![j] = NoJobDoc] ELSE jobStore

\* the deferred close(updates) of the goroutine: closing a closed channel
\* panics, and a panic outside the handler's goroutine ends the process
DeferredClose(s) ==
    IF chanClosed[s]
    THEN /\ crashed' = TRUE
         /\ UNCHANGED chanClosed
    ELSE /\ chanClosed' = [chanClosed EXCEPT ![s] = TRUE]
         /\ UNCHANGED crashed

\* StreamSlideStatus up to ctx.Stream: GetJob, 404, the JSON answer, the
\* channel, the stream context and `go func() { ... WatchJob ... }`
F_Open(s) ==
    /\ variant \in FirestoreVariants
    /\ ~crashed
    /\ subPc[s] = "none"
    /\ \E delOk \in BOOLEAN : jobStore' = GetJobStore(StreamJob, delOk)
    /\ IF ~GetJob(StreamJob).found
       THEN /\ events' = [events EXCEPT ![s] = <<Event("404", NoUpdate)>>]
            /\ subPc' = [subPc EXCEPT ![s] = "done"]
            /\ UNCHANGED watchPc
       ELSE \E wantsSSE \in BOOLEAN :
              IF wantsSSE
              THEN /\ subPc' = [subPc EXCEPT ![s] = "loop"]
                   /\ watchPc' = [watchPc EXCEPT ![s] = "get"]
                   /\ UNCHANGED events
              ELSE /\ events' = [events EXCEPT ![s] = <<Event("json", GetJob(StreamJob).u)>>]
                   /\ subPc' = [subPc EXCEPT ![s] = "done"]
                   /\ UNCHANGED watchPc
    /\ UNCHANGED <<variant, reqVars, lockVars, stageVars, now, getResp, histVars, resultStore, blobs, dispVars, crashed, memVars,
                   jobSubs, chan, chanClosed, snap, dropped, regVer, clientGone,
                   seen, cancelled>>

\* WatchJob, GetJob: a missing job ends WatchJob with an error
WJ_Get(s) ==
    /\ variant \in FirestoreVariants
    /\ ~crashed
    /\ watchPc[s] = "get"
    /\ \E delOk \in BOOLEAN : jobStore' = GetJobStore(StreamJob, delOk)
    /\ IF GetJob(StreamJob).found
       THEN /\ snap' = [snap EXCEPT ![s] = GetJob(StreamJob).u]
            /\ watchPc' = [watchPc EXCEPT ![s] = "initial"]
       ELSE /\ watchPc' = [watchPc EXCEPT ![s] = "return"]
            /\ UNCHANGED snap
    /\ UNCHANGED <<variant, reqVars, lockVars, stageVars, now, getResp, histVars, resultStore, blobs, dispVars, crashed, memVars,
                   jobSubs, subPc, chan, chanClosed, events, dropped, regVer,
                   clientGone, seen, cancelled>>

\* WatchJob, updates <- JobUpdate{...} of the initial state; for a job that
\* is already completed or failed close(updates) and return nil follow
WJ_Initial(s) ==
    /\ variant \in FirestoreVariants
    /\ ~crashed
    /\ watchPc[s] = "initial"
    /\ Len(chan[s]) < ChanCap
    /\ chan' = [chan EXCEPT ![s] = Append(@, snap[s])]
    /\ IF Terminal(snap[s].status)
       THEN /\ chanClosed' = [chanClosed EXCEPT ![s] = TRUE]
            /\ watchPc' = [watchPc EXCEPT ![s] = "return"]
       ELSE /\ watchPc' = [watchPc EXCEPT ![s] = "next"]
            /\ UNCHANGED chanClosed
    /\ UNCHANGED <<variant, reqVars, lockVars, stageVars, now, getResp, histVars, storeVars, dispVars, crashed, memVars, jobSubs,
                   subPc, snap, events, dropped, regVer, clientGone, seen,
                   cancelled>>

\* a listener that hands out the document as AddJob created it
SnapshotUpdateStale(j) ==
    [status |-> StatusQueued, ver |-> NewJobDoc.message, url |-> FALSE,
     src |-> "worker"]

\* the update WatchJob builds from a snapshot
SnapshotUpdate(j) ==
    [status |-> jobStore[j].status, ver |-> jobStore[j].message,
     url |-> jobStore[j].status = StatusCompleted /\ resultStore[j].exists,
     src |-> "worker"]

\* WatchJob, snapshots.Next(): an error once the stream context is
\* cancelled or when the listener fails, else the document as soon as it
\* differs from the one delivered last (the first call delivers the current
\* document)
WJ_Next(s) ==
    /\ variant \in FirestoreVariants
    /\ ~crashed
    /\ watchPc[s] = "next"
    /\ \E err \in BOOLEAN :
       IF cancelled[s] \/ err
       THEN /\ watchPc' = [watchPc EXCEPT ![s] = "return"]
            /\ UNCHANGED <<seen, snap>>
       ELSE /\ seen[s] # <<jobStore[StreamJob]>>
            /\ seen' = [seen EXCEPT ![s] = <<jobStore[StreamJob]>>]
            /\ IF jobStore[StreamJob].exists
               THEN /\ snap' = [snap EXCEPT ![s] = SnapshotUpdate(StreamJob)]
                    /\ watchPc' = [watchPc EXCEPT ![s] = "send"]
               ELSE /\ watchPc' = [watchPc EXCEPT ![s] = "return"]
                    /\ UNCHANGED snap
    /\ UNCHANGED <<variant, reqVars, lockVars, stageVars, now, getResp, histVars, storeVars, dispVars, crashed, memVars, jobSubs,
                   subPc, chan, chanClosed, events, dropped, regVer, clientGone,
                   cancelled>>

\* WatchJob, select { case updates <- update: case <-ctx.Done(): }; after a
\* terminal update WatchJob returns nil
WJ_Send(s) ==
    /\ variant \in FirestoreVariants
    /\ ~crashed
    /\ watchPc[s] = "send"
    /\ \/ /\ Len(chan[s]) < ChanCap
          /\ chan' = [chan EXCEPT ![s] = Append(@, snap[s])]
          /\ watchPc' = [watchPc EXCEPT ![s] =
                            IF Terminal(snap[s].status) THEN "return" ELSE "next"]
       \/ /\ cancelled[s]
          /\ watchPc' = [watchPc EXCEPT ![s] = "return"]
          /\ UNCHANGED chan
    /\ UNCHANGED <<variant, reqVars, lockVars, stageVars, now, getResp, histVars, storeVars, dispVars, crashed, memVars, jobSubs,
                   subPc, chanClosed, snap, events, dropped, regVer, clientGone,
                   seen, cancelled>>

\* WatchJob has returned: the goroutine's deferred close(updates) runs
WJ_Return(s) ==
    /\ variant \in FirestoreVariants
    /\ ~crashed
    /\ watchPc[s] = "return"
    /\ DeferredClose(s)
    /\ watchPc' = [watchPc EXCEPT ![s] = "done"]
    /\ UNCHANGED <<variant, reqVars, lockVars, stageVars, now, getResp, histVars, storeVars, dispVars, memVars, jobSubs, subPc,
                   chan, snap, events, dropped, regVer, clientGone, seen,
                   cancelled>>

\* the stream loop receives an update and emits it; after a terminal update
\* it emits the close event, calls cancelStream and ends
F_Recv(s) ==
    /\ variant \in FirestoreVariants
    /\ ~crashed
    /\ subPc[s] = "loop"
    /\ chan[s] # <<>>
    /\ chan' = [chan EXCEPT ![s] = Tail(@)]
    /\ IF Terminal(Head(chan[s]).status)
       THEN /\ events' = [events EXCEPT ![s] =
                             @ \o <<Event("update", Head(chan[s])),
                                    Event("close", Head(chan[s]))>>]
            /\ cancelled' = [cancelled EXCEPT ![s] = TRUE]
            /\ subPc' = [subPc EXCEPT ![s] = "done"]
       ELSE /\ events' = [events EXCEPT ![s] = Append(@, Event("update", Head(chan[s])))]
            /\ UNCHANGED <<cancelled, subPc>>
    /\ UNCHANGED <<variant, reqVars, lockVars, stageVars, now, getResp, histVars, storeVars, dispVars, crashed, memVars, jobSubs,
                   chanClosed, snap, dropped, regVer, clientGone, watchPc, seen>>

\* the stream loop finds the channel closed and empty: it ends, the
\* deferred cancelStream runs
F_RecvClosed(s) ==
    /\ variant \in FirestoreVariants
    /\ ~crashed
    /\ subPc[s] = "loop"
    /\ chan[s] = <<>> /\ chanClosed[s]
    /\ cancelled' = [cancelled EXCEPT ![s] = TRUE]
    /\ subPc' = [subPc EXCEPT ![s] = "done"]
    /\ UNCHANGED <<variant, reqVars, lockVars, stageVars, now, getResp, histVars, storeVars, dispVars, crashed, memVars, jobSubs,
                   chan, chanClosed, snap, events, dropped, regVer, clientGone,
                   watchPc, seen>>

\* 30 s without an update: the heartbeat
F_Ping(s) ==
    /\ variant \in FirestoreVariants
    /\ ~crashed
    /\ subPc[s] = "loop"
    /\ chan[s] = <<>> /\ ~chanClosed[s]
    /\ Pings(s) < MaxPings
    /\ events' = [events EXCEPT ![s] = Append(@, Event("ping", NoUpdate))]
    /\ UNCHANGED <<variant, reqVars, lockVars, stageVars, now, getResp, histVars, storeVars, dispVars, crashed, memVars, jobSubs,
                   subPc, chan, chanClosed, snap, dropped, regVer, clientGone,
                   watchVars>>

\* the client goes away
F_ClientClose(s) ==
    /\ variant \in FirestoreVariants
    /\ ~crashed
    /\ subPc[s] = "loop"
    /\ ~clientGone[s]
    /\ clientGone' = [clientGone EXCEPT ![s] = TRUE]
    /\ UNCHANGED <<variant, reqVars, lockVars, stageVars, now, getResp, histVars, storeVars, dispVars, crashed, memVars, jobSubs,
                   subPc, chan, chanClosed, snap, events, dropped, regVer,
                   watchVars>>

\* the stream ends because the client is gone: cancelStream runs, in the
\* step function or deferred
F_Gone(s) ==
    /\ variant \in FirestoreVariants
    /\ ~crashed
    /\ subPc[s] = "loop"
    /\ clientGone[s]
    /\ cancelled' = [cancelled EXCEPT ![s] = TRUE]
    /\ subPc' = [subPc EXCEPT ![s] = "done"]
    /\ UNCHANGED <<variant, reqVars, lockVars, stageVars, now, getResp, histVars, storeVars, dispVars, crashed, memVars, jobSubs,
                   chan, chanClosed, snap, events, dropped, regVer, clientGone,
                   watchPc, seen>>

----------------------------------------------------------------------------
(* Status polls and the clock *)

\* no poll has been made
NoResp == [called |-> FALSE, found |-> FALSE, status |-> "", url |-> FALSE,
           at |-> 0, n |-> 0]

\* what a caller of GetJob gets: nil or the fields of the job; at is the time
\* of the call and n counts the calls in a row that were answered completed
Answer(prev, found, status, url) ==
    [called |-> TRUE, found |-> found, status |-> status, url |-> url, at |-> now,
     n |-> IF found /\ status = StatusCompleted
           THEN (IF prev.n < MaxPolls THEN prev.n + 1 ELSE MaxPolls)
           ELSE 0]

\* the job that the specifications of a single job follow
PollJob == CHOOSE j \in TaskJobs : \A k \in TaskJobs : j <= k

\* the clock advances by the lifetime of a completed job record
Tick ==
    /\ variant \in {"tasks", "proc"}
    /\ now < MaxTicks * JobTTL
    /\ now' = now + JobTTL
    /\ UNCHANGED <<variant, reqVars, lockVars, stageVars, getResp, watchVars, histVars, storeVars, dispVars,
                   crashed, memVars, subVars>>

\* the clock advances by the lifetime of a result
TickLong ==
    /\ variant \in {"tasks", "proc"}
    /\ now < MaxTicks * ResultTTL
    /\ now' = now + ResultTTL
    /\ UNCHANGED <<variant, reqVars, lockVars, stageVars, getResp, watchVars, histVars, storeVars, dispVars,
                   crashed, memVars, subVars>>

\* a GetJob call of a Firestore-backed service
G_GetJob(j) ==
    /\ variant \in {"tasks", "proc"}
    /\ \E delOk \in BOOLEAN : jobStore' = GetJobStore(j, delOk)
    /\ getResp' = [getResp EXCEPT ![j] =
                      Answer(getResp[j], GetJob(j).found, GetJob(j).u.status,
                             GetJob(j).u.url)]
    /\ UNCHANGED <<variant, reqVars, lockVars, stageVars, now, watchVars, histVars, resultStore, blobs, dispVars,
                   crashed, memVars, subVars>>

\* a GetJob call of the in-memory service: the lookup in s.jobs; the caller
\* reads the fields of the job it got
M_GetJob(j) ==
    /\ variant = "mem"
    /\ ~crashed
    /\ getResp' = [getResp EXCEPT ![j] =
                      IF j \in jobsMap
                      THEN Answer(getResp[j], TRUE, memStatus[j], mUrl[j])
                      ELSE Answer(getResp[j], FALSE, "", FALSE)]
    /\ UNCHANGED <<variant, reqVars, lockVars, stageVars, now, watchVars, histVars, storeVars, dispVars,
                   crashed, memVars, subVars>>

\* GetResult has not been called
NoResult == [called |-> FALSE, found |-> FALSE, run |-> 0, at |-> 0]

\* result.ExpiresAt > 0 && now > result.ExpiresAt
ResultExpired(doc) == doc.expiresAt > 0 /\ now > doc.expiresAt

\* GetResult / GetSlideResult: the document of the results collection under
\* the job id; a missing one is answered not-found, an expired one is deleted
\* (the delete may fail, that is logged) and answered not-found; the job
\* document is not read. run is the run that stored the artifact returned.
R_GetResult(j) ==
    /\ variant \in {"tasks", "proc"}
    /\ IF resultStore[j].exists /\ ResultExpired(resultStore[j])
       THEN \E delOk \in BOOLEAN :
               resultStore' = IF delOk THEN [resultStore EXCEPT ![j] = NoResultDoc]
                                       ELSE resultStore
       ELSE UNCHANGED resultStore
    /\ resResp' = [resResp EXCEPT ![j] =
                      IF resultStore[j].exists /\ ~ResultExpired(resultStore[j])
                      THEN [called |-> TRUE, found |-> TRUE,
                            run |-> resultStore[j].run, at |-> now]
                      ELSE [called |-> TRUE, found |-> FALSE, run |-> 0, at |-> now]]
    /\ UNCHANGED <<variant, req, themeEx, lockVars, stageVars, now, getResp, watchVars, histVars, jobStore, blobs,
                   dispVars, crashed, memVars, subVars>>

----------------------------------------------------------------------------
(* Specifications *)

(* The prompt builder: the example of the theme *)

\* the keys of themeConfigs
ThemeConfigKeys == {"default", "beam", "rose-pine", "gaia", "uncover", "graph_paper"}

\* themeConfigs: the settings of each theme that the templates use
themeConfigs ==
    [k \in ThemeConfigKeys |->
       CASE k = "default" ->
              [UseLeadClass |-> TRUE, HasInvertClass |-> TRUE, HasTinyTextClass |-> FALSE,
               HasTitleClass |-> FALSE, HeaderLocation |-> "top left",
               FooterLocation |-> "bottom left", ThemeDescription |-> "light"]
         [] k = "beam" ->
              [UseLeadClass |-> FALSE, HasInvertClass |-> FALSE, HasTinyTextClass |-> TRUE,
               HasTitleClass |-> TRUE, HeaderLocation |-> "bottom left half",
               FooterLocation |-> "bottom right half", ThemeDescription |-> "beam"]
         [] k = "rose-pine" ->
              [UseLeadClass |-> TRUE, HasInvertClass |-> FALSE, HasTinyTextClass |-> FALSE,
               HasTitleClass |-> FALSE, HeaderLocation |-> "top left",
               FooterLocation |-> "bottom left", ThemeDescription |-> "rose pine dark"]
         [] k = "gaia" ->
              [UseLeadClass |-> TRUE, HasInvertClass |-> TRUE, HasTinyTextClass |-> FALSE,
               HasTitleClass |-> FALSE, HeaderLocation |-> "top left",
               FooterLocation |-> "bottom left", ThemeDescription |-> "light"]
         [] k = "uncover" ->
              [UseLeadClass |-> TRUE, HasInvertClass |-> TRUE, HasTinyTextClass |-> FALSE,
               HasTitleClass |-> FALSE, HeaderLocation |-> "top middle",
               FooterLocation |-> "bottom middle", ThemeDescription |-> "light"]
         [] OTHER ->
              [UseLeadClass |-> TRUE, HasInvertClass |-> FALSE, HasTinyTextClass |-> TRUE,
               HasTitleClass |-> FALSE, HeaderLocation |-> "top left",
               FooterLocation |-> "bottom left", ThemeDescription |-> "graph paper light"]]

\* no example was generated
NoExample == [built |-> FALSE, Theme |-> "", key |-> ""]

\* generateThemeExample: themeConfig, exists := themeConfigs[theme]; if
\* !exists { themeConfig = themeConfigs["default"] }; the template data are
\* the entry and the name of the theme
generateThemeExample(theme) ==
    LET key == IF theme \in ThemeConfigKeys THEN theme ELSE "default"
    IN  [built |-> TRUE, Theme |-> theme, key |-> key, config |-> themeConfigs[key]]

\* the generator of an accepted job builds its prompt: GenerateSlidePrompt
\* calls generateThemeExample with the theme of the request
GP_ThemeExample ==
    /\ variant = "tasks"
    /\ submitResp[PollJob] = "accepted"
    /\ ~themeEx.built
    /\ themeEx' = generateThemeExample(req.theme)
    /\ UNCHANGED <<variant, req, resResp, lockVars, stageVars, now, getResp, watchVars,
                   histVars, storeVars, dispVars, crashed, memVars, subVars>>

(* In-memory variant at the level of single statements: the mutexes.       *)
(* One job, the AddJob call that creates it, the worker that processes it, *)
(* its removeJob goroutine and one StreamSlideStatus handler.               *)

LockProcs == {"add", "handler", "worker", "remove"}

\* the statement `at` of function `fn`
At(fn, at) == [fn |-> fn, at |-> at]

Returned == At("", "done")

coarseVars == <<variant, reqVars, now, getResp, watchVars, histVars, storeVars,
                dispVars, crashed, memVars, subVars>>

InitLock ==
    /\ lockPc = [p \in LockProcs |->
                   CASE p = "add"     -> At("AddJob", "check")
                     [] p = "handler" -> At("GetJob", "RLock")
                     [] p = "worker"  -> At("worker", "recv")
                     [] OTHER         -> At("removeJob", "idle")]
    /\ svcMu = [w |-> "", r |-> {}]
    /\ jobMu = ""
    /\ lkMap = FALSE
    /\ lkFound = [p \in LockProcs |-> FALSE]
    /\ lkSubs = FALSE
    /\ lkQueue = 0
    /\ lkChan = 0
    /\ lkFields = [status |-> 0, rest |-> 0]
    /\ lkSnap = [status |-> -1, rest |-> -1]
    /\ lkWrites = 0
    /\ lkFinal = FALSE

\* AddJob: if len(s.queue) >= cap(s.queue) { return error }
L_AddCheck ==
    /\ variant = "mem"
    /\ lockPc["add"] = At("AddJob", "check")
    /\ lockPc' = [lockPc EXCEPT !["add"] =
                     IF lkQueue >= QueueCap THEN Returned ELSE At("AddJob", "Lock")]
    /\ UNCHANGED <<coarseVars, stageVars, svcMu, jobMu, lkMap, lkFound, lkSubs, lkQueue, lkChan,
                   lkFields, lkSnap, lkWrites, lkFinal>>

\* s.mu.Lock() of AddJob and removeJob: waits for the writer and the readers
L_SvcLock(p) ==
    /\ variant = "mem"
    /\ lockPc[p].fn \in {"AddJob", "removeJob"}
    /\ lockPc[p].at = "Lock"
    /\ svcMu.w = "" /\ svcMu.r = {}
    /\ svcMu' = [svcMu EXCEPT !.w = p]
    /\ lockPc' = [lockPc EXCEPT ![p].at = "body"]
    /\ UNCHANGED <<coarseVars, stageVars, jobMu, lkMap, lkFound, lkSubs, lkQueue, lkChan,
                   lkFields, lkSnap, lkWrites, lkFinal>>

\* AddJob: s.jobs[id] = job
L_AddInsert ==
    /\ variant = "mem"
    /\ lockPc["add"] = At("AddJob", "body")
    /\ lkMap' = TRUE
    /\ lockPc' = [lockPc EXCEPT !["add"].at = "Unlock"]
    /\ UNCHANGED <<coarseVars, stageVars, svcMu, jobMu, lkFound, lkSubs, lkQueue, lkChan,
                   lkFields, lkSnap, lkWrites, lkFinal>>

\* removeJob: delete(s.jobs, job.ID)
L_RemoveDelete ==
    /\ variant = "mem"
    /\ lockPc["remove"] = At("removeJob", "body")
    /\ lkMap' = FALSE
    /\ lockPc' = [lockPc EXCEPT !["remove"].at = "Unlock"]
    /\ UNCHANGED <<coarseVars, stageVars, svcMu, jobMu, lkFound, lkSubs, lkQueue, lkChan,
                   lkFields, lkSnap, lkWrites, lkFinal>>

\* s.mu.Unlock(): AddJob goes on to the channel send, removeJob returns
L_SvcUnlock(p) ==
    /\ variant = "mem"
    /\ lockPc[p].fn \in {"AddJob", "removeJob"}
    /\ lockPc[p].at = "Unlock"
    /\ svcMu' = [svcMu EXCEPT !.w = ""]
    /\ lockPc' = [lockPc EXCEPT ![p] =
                     IF lockPc[p].fn = "AddJob" THEN At("AddJob", "send") ELSE Returned]
    /\ UNCHANGED <<coarseVars, stageVars, jobMu, lkMap, lkFound, lkSubs, lkQueue, lkChan,
                   lkFields, lkSnap, lkWrites, lkFinal>>

\* AddJob: s.queue <- job
L_AddSend ==
    /\ variant = "mem"
    /\ lockPc["add"] = At("AddJob", "send")
    /\ lkQueue < QueueCap
    /\ lkQueue' = lkQueue + 1
    /\ lockPc' = [lockPc EXCEPT !["add"] = Returned]
    /\ UNCHANGED <<coarseVars, stageVars, svcMu, jobMu, lkMap, lkFound, lkSubs, lkChan,
                   lkFields, lkSnap, lkWrites, lkFinal>>

\* worker: for job := range s.queue { s.processJob(job) }; processJob starts
\* with updateJobStatus(job, StatusProcessing, ...)
L_WorkerRecv ==
    /\ variant = "mem"
    /\ lockPc["worker"] = At("worker", "recv")
    /\ lkQueue > 0
    /\ lkQueue' = lkQueue - 1
    /\ lkFinal' = FALSE
    /\ lockPc' = [lockPc EXCEPT !["worker"] = At("updateJobStatus", "Lock")]
    /\ UNCHANGED <<coarseVars, stageVars, svcMu, jobMu, lkMap, lkFound, lkSubs, lkChan,
                   lkFields, lkSnap, lkWrites>>

\* job.mu.Lock() of Subscribe, Unsubscribe and updateJobStatus
L_JobLock(p) ==
    /\ variant = "mem"
    /\ lockPc[p].fn \in {"Subscribe", "Unsubscribe", "updateJobStatus"}
    /\ lockPc[p].at = "Lock"
    /\ jobMu = ""
    /\ jobMu' = p
    /\ lockPc' = [lockPc EXCEPT ![p].at = "body"]
    /\ UNCHANGED <<coarseVars, stageVars, svcMu, lkMap, lkFound, lkSubs, lkQueue, lkChan,
                   lkFields, lkSnap, lkWrites, lkFinal>>

\* updateJobStatus: job.Status = status
L_WriteStatus ==
    /\ variant = "mem"
    /\ lockPc["worker"] = At("updateJobStatus", "body")
    /\ lkFields' = [lkFields EXCEPT !.status = lkWrites + 1]
    /\ lockPc' = [lockPc EXCEPT !["worker"].at = "rest"]
    /\ UNCHANGED <<coarseVars, stageVars, svcMu, jobMu, lkMap, lkFound, lkSubs, lkQueue, lkChan,
                   lkSnap, lkWrites, lkFinal>>

\* updateJobStatus: job.Message, job.UpdatedAt, job.ResultURL
L_WriteRest ==
    /\ variant = "mem"
    /\ lockPc["worker"] = At("updateJobStatus", "rest")
    /\ lkFields' = [lkFields EXCEPT !.rest = lkWrites + 1]
    /\ lockPc' = [lockPc EXCEPT !["worker"].at = "notify"]
    /\ UNCHANGED <<coarseVars, stageVars, svcMu, jobMu, lkMap, lkFound, lkSubs, lkQueue, lkChan,
                   lkSnap, lkWrites, lkFinal>>

\* updateJobStatus: for ch := range job.Subscribers { select { case ch <-
\* update: default: } }
L_Notify ==
    /\ variant = "mem"
    /\ lockPc["worker"] = At("updateJobStatus", "notify")
    /\ lkChan' = IF lkSubs /\ lkChan < ChanCap THEN lkChan + 1 ELSE lkChan
    /\ lockPc' = [lockPc EXCEPT !["worker"].at = "Unlock"]
    /\ UNCHANGED <<coarseVars, stageVars, svcMu, jobMu, lkMap, lkFound, lkSubs, lkQueue,
                   lkFields, lkSnap, lkWrites, lkFinal>>

\* where a goroutine goes on after job.mu.Unlock(): Subscribe builds the
\* initial update, Unsubscribe returns, updateJobStatus returns into the
\* generator call or, after a final status, into the worker loop
AfterJobUnlock(pc) ==
    CASE pc.fn = "Subscribe"   -> At("Subscribe", "status")
      [] pc.fn = "Unsubscribe" -> Returned
      [] OTHER -> IF lkFinal THEN At("worker", "recv") ELSE At("processJob", "generate")

\* a Subscribe that holds job.mu until it returns (defer job.mu.Unlock())
L_JobUnlockDeferred(p) ==
    /\ variant = "mem"
    /\ lockPc[p].fn \in {"Subscribe", "Unsubscribe", "updateJobStatus"}
    /\ lockPc[p].at = "Unlock"
    /\ jobMu' = IF lockPc[p].fn = "Subscribe" THEN jobMu ELSE ""
    /\ lkWrites' = IF lockPc[p].fn = "updateJobStatus" THEN lkWrites + 1 ELSE lkWrites
    /\ lockPc' = [q \in LockProcs |->
                    IF q = p THEN AfterJobUnlock(lockPc[p])
                    ELSE IF q = "remove" /\ lockPc[p].fn = "updateJobStatus" /\ lkFinal
                         THEN At("removeJob", "Lock")
                         ELSE lockPc[q]]
    /\ UNCHANGED <<coarseVars, stageVars, svcMu, lkMap, lkFound, lkSubs, lkQueue, lkChan,
                   lkFields, lkSnap, lkFinal>>

\* job.mu.Unlock(); after a completed or failed status updateJobStatus
\* starts `go s.removeJob(job)`
L_JobUnlock(p) ==
    /\ variant = "mem"
    /\ lockPc[p].fn \in {"Subscribe", "Unsubscribe", "updateJobStatus"}
    /\ lockPc[p].at = "Unlock"
    /\ jobMu' = ""
    /\ lkWrites' = IF lockPc[p].fn = "updateJobStatus" THEN lkWrites + 1 ELSE lkWrites
    /\ lockPc' = [q \in LockProcs |->
                    IF q = p THEN AfterJobUnlock(lockPc[p])
                    ELSE IF q = "remove" /\ lockPc[p].fn = "updateJobStatus" /\ lkFinal
                         THEN At("removeJob", "Lock")
                         ELSE lockPc[q]]
    /\ UNCHANGED <<coarseVars, stageVars, svcMu, lkMap, lkFound, lkSubs, lkQueue, lkChan,
                   lkFields, lkSnap, lkFinal>>

\* the generator calls statusUpdateFn
L_Callback ==
    /\ variant = "mem"
    /\ lockPc["worker"] = At("processJob", "generate")
    /\ lkWrites < MaxProgress + 1
    /\ lkFinal' = FALSE
    /\ lockPc' = [lockPc EXCEPT !["worker"] = At("updateJobStatus", "Lock")]
    /\ UNCHANGED <<coarseVars, stageVars, svcMu, jobMu, lkMap, lkFound, lkSubs, lkQueue, lkChan,
                   lkFields, lkSnap, lkWrites>>

\* the generator returns: updateJobStatus with failed or completed
L_GenReturn ==
    /\ variant = "mem"
    /\ lockPc["worker"] = At("processJob", "generate")
    /\ lkFinal' = TRUE
    /\ lockPc' = [lockPc EXCEPT !["worker"] = At("updateJobStatus", "Lock")]
    /\ UNCHANGED <<coarseVars, stageVars, svcMu, jobMu, lkMap, lkFound, lkSubs, lkQueue, lkChan,
                   lkFields, lkSnap, lkWrites>>

\* s.mu.RLock() of GetJob, Subscribe and Unsubscribe: waits for the writer
L_RLock(p) ==
    /\ variant = "mem"
    /\ lockPc[p].fn \in {"GetJob", "Subscribe", "Unsubscribe"}
    /\ lockPc[p].at = "RLock"
    /\ svcMu.w = ""
    /\ svcMu' = [svcMu EXCEPT !.r = @ \cup {p}]
    /\ lockPc' = [lockPc EXCEPT ![p].at = "lookup"]
    /\ UNCHANGED <<coarseVars, stageVars, jobMu, lkMap, lkFound, lkSubs, lkQueue, lkChan,
                   lkFields, lkSnap, lkWrites, lkFinal>>

\* job, exists := s.jobs[jobID]
L_Lookup(p) ==
    /\ variant = "mem"
    /\ lockPc[p].fn \in {"GetJob", "Subscribe", "Unsubscribe"}
    /\ lockPc[p].at = "lookup"
    /\ lkFound' = [lkFound EXCEPT ![p] = lkMap]
    /\ lockPc' = [lockPc EXCEPT ![p].at = "RUnlock"]
    /\ UNCHANGED <<coarseVars, stageVars, svcMu, jobMu, lkMap, lkSubs, lkQueue, lkChan,
                   lkFields, lkSnap, lkWrites, lkFinal>>

\* s.mu.RUnlock(); an unknown job ends the call (404). After GetJob the
\* handler answers with JSON or calls Subscribe
L_RUnlock(p) ==
    /\ variant = "mem"
    /\ lockPc[p].fn \in {"GetJob", "Subscribe", "Unsubscribe"}
    /\ lockPc[p].at = "RUnlock"
    /\ svcMu' = [svcMu EXCEPT !.r = @ \ {p}]
    /\ \E wantsSSE \in BOOLEAN :
          lockPc' = [lockPc EXCEPT ![p] =
                       CASE ~lkFound[p] -> Returned
                         [] lockPc[p].fn = "GetJob" /\ wantsSSE -> At("Subscribe", "RLock")
                         [] lockPc[p].fn = "GetJob" /\ ~wantsSSE -> At("StreamSlideStatus", "status")
                         [] OTHER -> At(lockPc[p].fn, "Lock")]
    /\ UNCHANGED <<coarseVars, stageVars, jobMu, lkMap, lkFound, lkSubs, lkQueue, lkChan,
                   lkFields, lkSnap, lkWrites, lkFinal>>

\* Subscribe: job.Subscribers[updates] = true
L_Register ==
    /\ variant = "mem"
    /\ lockPc["handler"] = At("Subscribe", "body")
    /\ lkSubs' = TRUE
    /\ lockPc' = [lockPc EXCEPT !["handler"].at = "Unlock"]
    /\ UNCHANGED <<coarseVars, stageVars, svcMu, jobMu, lkMap, lkFound, lkQueue, lkChan,
                   lkFields, lkSnap, lkWrites, lkFinal>>

\* Unsubscribe: delete(job.Subscribers, updates)
L_Unregister ==
    /\ variant = "mem"
    /\ lockPc["handler"] = At("Unsubscribe", "body")
    /\ lkSubs' = FALSE
    /\ lockPc' = [lockPc EXCEPT !["handler"].at = "Unlock"]
    /\ UNCHANGED <<coarseVars, stageVars, svcMu, jobMu, lkMap, lkFound, lkQueue, lkChan,
                   lkFields, lkSnap, lkWrites, lkFinal>>

\* the read of job.Status for the initial JobUpdate of Subscribe or for the
\* JSON answer of StreamSlideStatus
L_ReadStatus ==
    /\ variant = "mem"
    /\ lockPc["handler"].fn \in {"Subscribe", "StreamSlideStatus"}
    /\ lockPc["handler"].at = "status"
    /\ lkSnap' = [lkSnap EXCEPT !.status = lkFields.status]
    /\ lockPc' = [lockPc EXCEPT !["handler"].at = "rest"]
    /\ UNCHANGED <<coarseVars, stageVars, svcMu, jobMu, lkMap, lkFound, lkSubs, lkQueue, lkChan,
                   lkFields, lkWrites, lkFinal>>

\* the reads of job.Message, job.ResultURL and job.UpdatedAt
L_ReadRest ==
    /\ variant = "mem"
    /\ lockPc["handler"].fn \in {"Subscribe", "StreamSlideStatus"}
    /\ lockPc["handler"].at = "rest"
    /\ lkSnap' = [lkSnap EXCEPT !.rest = lkFields.rest]
    /\ lockPc' = [lockPc EXCEPT !["handler"] =
                     IF lockPc["handler"].fn = "Subscribe"
                     THEN At("Subscribe", "send") ELSE Returned]
    /\ UNCHANGED <<coarseVars, stageVars, svcMu, jobMu, lkMap, lkFound, lkSubs, lkQueue, lkChan,
                   lkFields, lkWrites, lkFinal>>

\* Subscribe: updates <- JobUpdate{...}, then ctx.Stream
L_SubSend ==
    /\ variant = "mem"
    /\ lockPc["handler"] = At("Subscribe", "send")
    /\ lkChan < ChanCap
    /\ lkChan' = lkChan + 1
    /\ lockPc' = [lockPc EXCEPT !["handler"] = At("StreamSlideStatus", "loop")]
    /\ UNCHANGED <<coarseVars, stageVars, svcMu, jobMu, lkMap, lkFound, lkSubs, lkQueue,
                   lkFields, lkSnap, lkWrites, lkFinal>>

\* the stream loop takes an update from the channel
L_LoopRecv ==
    /\ variant = "mem"
    /\ lockPc["handler"] = At("StreamSlideStatus", "loop")
    /\ lkChan > 0
    /\ lkChan' = lkChan - 1
    /\ UNCHANGED <<coarseVars, stageVars, lockPc, svcMu, jobMu, lkMap, lkFound, lkSubs, lkQueue,
                   lkFields, lkSnap, lkWrites, lkFinal>>

\* the stream loop ends (a final update was emitted or the client is gone)
\* and calls Unsubscribe
L_LoopEnd ==
    /\ variant = "mem"
    /\ lockPc["handler"] = At("StreamSlideStatus", "loop")
    /\ lockPc' = [lockPc EXCEPT !["handler"] = At("Unsubscribe", "RLock")]
    /\ UNCHANGED <<coarseVars, stageVars, svcMu, jobMu, lkMap, lkFound, lkSubs, lkQueue, lkChan,
                   lkFields, lkSnap, lkWrites, lkFinal>>

NextLock ==
    \/ L_AddCheck \/ L_AddInsert \/ L_AddSend \/ L_RemoveDelete
    \/ L_WorkerRecv \/ L_WriteStatus \/ L_WriteRest \/ L_Notify
    \/ L_Callback \/ L_GenReturn
    \/ L_Register \/ L_Unregister \/ L_ReadStatus \/ L_ReadRest
    \/ L_SubSend \/ L_LoopRecv \/ L_LoopEnd
    \/ \E p \in LockProcs :
          \/ L_SvcLock(p) \/ L_SvcUnlock(p) \/ L_JobLock(p) \/ L_JobUnlock(p)
          \/ L_RLock(p) \/ L_Lookup(p) \/ L_RUnlock(p)


(* Cloud Tasks variant: the staged files of one job, object by object.      *)

\* the filenames of the uploaded files
FileNames == {"a.pdf", "b.md", "c.txt"}

\* a submission: its files in order, each with a filename and its own bytes
\* (the bytes of the i-th file are written i)
Submissions ==
    UNION {[1..n -> FileNames] : n \in 1..MaxFiles}

\* uploadFileToGCS: objectPath := filepath.Join(jobID, file.Filename)
ObjectPath(jobID, filename) == <<jobID, filename>>

ObjectPaths == {ObjectPath(StreamJob, n) : n \in FileNames}

\* no object
NoObject == 0

InitStaging ==
    /\ stBucket = [k \in ObjectPaths |-> NoObject]
    /\ stRefs = <<>>
    /\ stGot = <<>>
    /\ stDel = <<>>
    /\ stPc = "upload"

\* AddJob, one round of `for _, file := range fileData`: the object is
\* written under its path and the FileReference is appended; a failed
\* upload ends AddJob
ST_Upload ==
    /\ variant = "tasks"
    /\ stPc = "upload"
    /\ Len(stRefs) < Len(stFiles)
    /\ LET i == Len(stRefs) + 1
           gcsPath == ObjectPath(StreamJob, stFiles[i])
       IN  \E ok \in BOOLEAN :
              IF ok
              THEN /\ stBucket' = [stBucket EXCEPT ![gcsPath] = i]
                   /\ stRefs' = Append(stRefs, [Filename |-> stFiles[i], GCSPath |-> gcsPath])
                   /\ UNCHANGED stPc
              ELSE /\ stPc' = "failed"
                   /\ UNCHANGED <<stBucket, stRefs>>
    /\ UNCHANGED <<coarseVars, lockVars, stFiles, stGot, stDel>>

\* AddJob enqueues the task with the references; ProcessSlides starts
ST_Enqueue ==
    /\ variant = "tasks"
    /\ stPc = "upload"
    /\ Len(stRefs) = Len(stFiles)
    /\ stPc' = "download"
    /\ UNCHANGED <<coarseVars, lockVars, stFiles, stBucket, stRefs, stGot, stDel>>

\* ProcessSlides, one round of the download loop: downloadFileFromGCS of
\* fileRef.GCSPath; a missing object fails the job
ST_Download ==
    /\ variant = "tasks"
    /\ stPc = "download"
    /\ Len(stGot) < Len(stRefs)
    /\ LET ref == stRefs[Len(stGot) + 1]
       IN  IF stBucket[ref.GCSPath] = NoObject
           THEN /\ stPc' = "failed"
                /\ UNCHANGED stGot
           ELSE /\ stGot' = Append(stGot, stBucket[ref.GCSPath])
                /\ UNCHANGED stPc
    /\ UNCHANGED <<coarseVars, lockVars, stFiles, stBucket, stRefs, stDel>>

\* ProcessSlides: all files are read, the slides are generated and stored
ST_Generate ==
    /\ variant = "tasks"
    /\ stPc = "download"
    /\ Len(stGot) = Len(stRefs)
    /\ stPc' = "cleanup"
    /\ UNCHANGED <<coarseVars, lockVars, stFiles, stBucket, stRefs, stGot, stDel>>

\* ProcessSlides, one round of the cleanup loop: obj.Delete; the error of a
\* Delete of an object that is not there is logged
ST_Delete ==
    /\ variant = "tasks"
    /\ stPc = "cleanup"
    /\ Len(stDel) < Len(stRefs)
    /\ LET ref == stRefs[Len(stDel) + 1]
       IN  /\ stDel' = Append(stDel, stBucket[ref.GCSPath] # NoObject)
           /\ stBucket' = [stBucket EXCEPT ![ref.GCSPath] = NoObject]
    /\ UNCHANGED <<coarseVars, lockVars, stFiles, stRefs, stGot, stPc>>

\* ProcessSlides: the cleanup loop is through, setJobCompleted follows
ST_Complete ==
    /\ variant = "tasks"
    /\ stPc = "cleanup"
    /\ Len(stDel) = Len(stRefs)
    /\ stPc' = "done"
    /\ UNCHANGED <<coarseVars, lockVars, stFiles, stBucket, stRefs, stGot, stDel>>

NextStaging ==
    \/ ST_Upload \/ ST_Enqueue \/ ST_Download \/ ST_Generate \/ ST_Delete
    \/ ST_Complete


vars == <<variant, now, jobStore, resultStore, blobs, submitResp, memStatus,
          taskFiles, deliveries, pcT, genStep, lastResp, reported, completeErr,
          procCount, crashed, jobsMap, queue, addPc, workerJob, mVer, mUrl,
          removePending, jobSubs, subPc, chan, chanClosed, snap, events, dropped,
          regVer, clientGone, watchPc, seen, cancelled, runEnd, storeFault,
          cleanupTried, getResp, req, resResp, everCompleted, lockPc, svcMu,
          jobMu, lkMap, lkFound, lkSubs, lkQueue, lkChan, lkFields, lkSnap,
          lkWrites, lkFinal,
          stFiles, stBucket, stRefs, stGot, stDel, stPc, themeEx>>

\* everything but the request of the validation scenario
InitState ==
    /\ now = 0
    /\ jobStore = [j \in JobIds |-> NoJobDoc]
    /\ resultStore = [j \in JobIds |-> NoResultDoc]
    /\ blobs = [j \in JobIds |-> {}]
    /\ submitResp = [j \in JobIds |-> "none"]
    /\ memStatus = [j \in JobIds |-> ""]
    /\ taskFiles = [j \in JobIds |-> -1]
    /\ deliveries = [j \in JobIds |-> 0]
    /\ pcT = [j \in JobIds |-> "idle"]
    /\ genStep = [j \in JobIds |-> 0]
    /\ lastResp = [j \in JobIds |-> 0]
    /\ reported = [j \in JobIds |-> FALSE]
    /\ completeErr = [j \in JobIds |-> FALSE]
    /\ procCount = [j \in JobIds |-> 0]
    /\ crashed = FALSE
    /\ jobsMap = {}
    /\ queue = <<>>
    /\ addPc = [j \in JobIds |-> "none"]
    /\ workerJob = [w \in Workers |-> 0]
    /\ mVer = [j \in JobIds |-> 0]
    /\ mUrl = [j \in JobIds |-> FALSE]
    /\ removePending = [j \in JobIds |-> FALSE]
    /\ jobSubs = [j \in JobIds |-> {}]
    /\ subPc = [s \in Subs |-> "none"]
    /\ chan = [s \in Subs |-> <<>>]
    /\ chanClosed = [s \in Subs |-> FALSE]
    /\ snap = [s \in Subs |-> NoUpdate]
    /\ events = [s \in Subs |-> <<>>]
    /\ dropped = [s \in Subs |-> 0]
    /\ regVer = [s \in Subs |-> -1]
    /\ clientGone = [s \in Subs |-> FALSE]
    /\ watchPc = [s \in Subs |-> "none"]
    /\ seen = [s \in Subs |-> <<>>]
    /\ cancelled = [s \in Subs |-> FALSE]
    /\ runEnd = [j \in JobIds |-> NoEnd]
    /\ storeFault = [j \in JobIds |-> FALSE]
    /\ cleanupTried = [j \in JobIds |-> FALSE]
    /\ getResp = [j \in JobIds |-> NoResp]
    /\ resResp = [j \in JobIds |-> NoResult]
    /\ themeEx = NoExample
    /\ everCompleted = [j \in JobIds |-> FALSE]
    /\ InitLock
    /\ InitStaging

InitCommon == InitState /\ req = NoReq /\ stFiles = <<>>

NextTasks ==
    \E j \in TaskJobs :
        \/ GenerateSlides(j)
        \/ PS_Start(j)
        \/ PS_Download(j)
        \/ PS_Progress(j)
        \/ PS_GenFail(j)
        \/ PS_Store(j)
        \/ PS_Cleanup(j)
        \/ PS_Complete(j)

NextProc ==
    \E j \in Jobs :
        \/ AddJobProc(j)
        \/ PJ_Start(j)
        \/ PJ_Progress(j)
        \/ PJ_GenFail(j)
        \/ PJ_Store(j)
        \/ PJ_Complete(j)

\* the Cloud Tasks variant
InitTasks == variant = "tasks" /\ InitCommon
SpecTasks == InitTasks /\ [][NextTasks]_vars

\* the in-memory dispatcher: admission and the worker pool
NextMemQ ==
    \/ \E j \in MemJobs : AJ_Check(j) \/ AJ_Send(j) \/ RemoveJob(j)
    \/ \E w \in Workers : W_Recv(w) \/ W_Start(w) \/ W_Progress(w) \/ W_Finish(w)

InitMem == variant = "mem" /\ InitCommon
SpecMemQ == InitMem /\ [][NextMemQ]_vars

\* the in-memory fan-out: one job, its worker and the stream handlers; with a
\* single job in the queue only one worker ever leaves its receive
FanWorkers == {1}

NextFan ==
    \/ AJ_Check(FanJob) \/ AJ_Send(FanJob) \/ RemoveJob(FanJob)
    \/ \E w \in FanWorkers : W_Recv(w) \/ W_Start(w) \/ W_Progress(w) \/ W_Finish(w)
    \/ \E s \in Subs :
          \/ S_Open(s) \/ S_Lookup(s) \/ S_Register(s) \/ S_Read(s) \/ S_Send(s)
          \/ S_Recv(s)

SpecFan == InitMem /\ [][NextFan]_vars

\* the in-memory stream of one handler, with heartbeats and a client that
\* may go away
GoneSubs == {"a"}

NextGone ==
    \/ AJ_Check(FanJob) \/ AJ_Send(FanJob) \/ RemoveJob(FanJob)
    \/ \E w \in FanWorkers : W_Recv(w) \/ W_Start(w) \/ W_Progress(w) \/ W_Finish(w)
    \/ \E s \in GoneSubs :
          \/ S_Open(s) \/ S_Lookup(s) \/ S_Register(s) \/ S_Read(s) \/ S_Send(s)
          \/ S_Recv(s) \/ S_Ping(s) \/ ClientClose(s) \/ S_GoneStep(s)
          \/ S_GoneStream(s)

SpecGone == InitMem /\ [][NextGone]_vars

\* both Firestore-backed dispatchers
InitFire == variant \in {"tasks", "proc"} /\ InitCommon
NextFire == NextTasks \/ NextProc
SpecFire == InitFire /\ [][NextFire]_vars

----------------------------------------------------------------------------
\* the Firestore stream: one job driven by the Cloud Tasks dispatcher, whose
\* task is delivered once, and one stream handler with its WatchJob goroutine
NextStream ==
    \/ GenerateSlides(StreamJob)
    \/ (deliveries[StreamJob] = 0 /\ PS_Start(StreamJob))
    \/ PS_Download(StreamJob)
    \/ PS_Progress(StreamJob) \/ PS_GenFail(StreamJob) \/ PS_Store(StreamJob)
    \/ PS_Cleanup(StreamJob) \/ PS_Complete(StreamJob)
    \/ \E s \in StreamSubs :
          \/ F_Open(s) \/ WJ_Get(s) \/ WJ_Initial(s) \/ WJ_Next(s) \/ WJ_Send(s)
          \/ WJ_Return(s) \/ F_Recv(s) \/ F_RecvClosed(s) \/ F_Ping(s)
          \/ F_ClientClose(s) \/ F_Gone(s)

SpecStream == InitTasks /\ [][NextStream]_vars

\* the streams of both variants, each with one handler: the in-memory stream
\* and the Firestore stream of a submission of at most one file
InitClose == variant \in {"tasks", "mem"} /\ InitCommon

NextClose ==
    \/ NextGone
    \/ (GenerateSlides(StreamJob) /\ taskFiles'[StreamJob] <= 1)
    \/ (deliveries[StreamJob] = 0 /\ PS_Start(StreamJob))
    \/ PS_Download(StreamJob)
    \/ PS_Progress(StreamJob) \/ PS_GenFail(StreamJob) \/ PS_Store(StreamJob)
    \/ PS_Cleanup(StreamJob) \/ PS_Complete(StreamJob)
    \/ \E s \in StreamSubs :
          \/ F_Open(s) \/ WJ_Get(s) \/ WJ_Initial(s) \/ WJ_Next(s) \/ WJ_Send(s)
          \/ WJ_Return(s) \/ F_Recv(s) \/ F_RecvClosed(s) \/ F_Ping(s)
          \/ F_ClientClose(s) \/ F_Gone(s)

SpecClose == InitClose /\ [][NextClose]_vars

\* status polls: one job of each dispatcher, the clock and GetJob calls; the
\* task of the Cloud Tasks dispatcher is delivered and redelivered once
InitGet == variant \in {"tasks", "proc", "mem"} /\ InitCommon

NextGet ==
    \/ Tick
    \/ G_GetJob(PollJob)
    \/ M_GetJob(PollJob)
    \/ GenerateSlides(PollJob)
    \/ (deliveries[PollJob] <= 1 /\ PS_Start(PollJob))
    \/ PS_Download(PollJob)
    \/ PS_Progress(PollJob) \/ PS_GenFail(PollJob) \/ PS_Store(PollJob)
    \/ PS_Cleanup(PollJob) \/ PS_Complete(PollJob)
    \/ AddJobProc(PollJob) \/ PJ_Start(PollJob) \/ PJ_Progress(PollJob)
    \/ PJ_GenFail(PollJob) \/ PJ_Store(PollJob) \/ PJ_Complete(PollJob)
    \/ AJ_Check(PollJob) \/ AJ_Send(PollJob) \/ RemoveJob(PollJob)
    \/ \E w \in FanWorkers : W_Recv(w) \/ W_Start(w) \/ W_Progress(w) \/ W_Finish(w)

SpecGet == InitGet /\ [][NextGet]_vars

\* one job of each Firestore-backed dispatcher, from submission to the end of
\* its runs
NextRun ==
    \/ GenerateSlides(PollJob) \/ PS_Start(PollJob) \/ PS_Download(PollJob)
    \/ PS_Progress(PollJob) \/ PS_GenFail(PollJob) \/ PS_Store(PollJob)
    \/ PS_Cleanup(PollJob) \/ PS_Complete(PollJob)
    \/ AddJobProc(PollJob) \/ PJ_Start(PollJob) \/ PJ_Progress(PollJob)
    \/ PJ_GenFail(PollJob) \/ PJ_Store(PollJob) \/ PJ_Complete(PollJob)

SpecRun == InitFire /\ [][NextRun]_vars

\* results: one job of each Firestore-backed dispatcher with its runs, the
\* clock, GetJob polls and GetResult calls
NextResult ==
    \/ NextRun
    \/ Tick
    \/ G_GetJob(PollJob)
    \/ R_GetResult(PollJob)

SpecResult == InitFire /\ [][NextResult]_vars

\* expiry: one job of each Firestore-backed dispatcher that is run once (a
\* submission of at most one file, a task delivered once), a clock that
\* advances by the lifetime of a job record or of a result, and the GetJob
\* polls and GetResult calls made once the run has ended
NextExpiry ==
    \/ (GenerateSlides(PollJob) /\ taskFiles'[PollJob] <= 1)
    \/ (deliveries[PollJob] = 0 /\ PS_Start(PollJob))
    \/ PS_Download(PollJob)
    \/ PS_Progress(PollJob) \/ PS_GenFail(PollJob) \/ PS_Store(PollJob)
    \/ PS_Cleanup(PollJob) \/ PS_Complete(PollJob)
    \/ AddJobProc(PollJob) \/ PJ_Start(PollJob) \/ PJ_Progress(PollJob)
    \/ PJ_GenFail(PollJob) \/ PJ_Store(PollJob) \/ PJ_Complete(PollJob)
    \/ Tick \/ TickLong
    \/ (runEnd[PollJob] # NoEnd /\ G_GetJob(PollJob))
    \/ (runEnd[PollJob] # NoEnd /\ R_GetResult(PollJob))

SpecExpiry == InitFire /\ [][NextExpiry]_vars

\* the submit handler on one request out of Requests
InitCheck == variant = "tasks" /\ InitState /\ req \in Requests /\ stFiles = <<>>

NextCheck == Submit(PollJob, req.theme, req.detail, req.audience, req.files)

SpecCheck == InitCheck /\ [][NextCheck]_vars

\* the in-memory service statement by statement, with its two mutexes
\* the submit handler and the prompt builder, for every sample request
NextPrompt ==
    \/ Submit(PollJob, req.theme, req.detail, req.audience, req.files)
    \/ GP_ThemeExample

SpecPrompt == InitCheck /\ [][NextPrompt]_vars

SpecLock == InitMem /\ [][NextLock]_vars

\* the staged files of one job of the Cloud Tasks variant, for every
\* submission of up to MaxFiles files
InitStage == variant = "tasks" /\ InitState /\ req = NoReq /\ stFiles \in Submissions

SpecStage == InitStage /\ [][NextStaging]_vars

\* both dispatchers that run processJob in their own process; the jobs of
\* the in-process dispatcher do not act on each other, NumTaskJobs of them
\* are followed here
InitDisp == variant \in {"mem", "proc"} /\ InitCommon

NextDisp ==
    \/ NextMemQ
    \/ \E j \in TaskJobs :
          \/ AddJobProc(j) \/ PJ_Start(j) \/ PJ_Progress(j)
          \/ PJ_GenFail(j) \/ PJ_Store(j) \/ PJ_Complete(j)

SpecDisp == InitDisp /\ [][NextDisp]_vars

\* a step of a goroutine the dispatcher itself started: a worker's receive
\* from the queue and its statements of processJob, AddJob's send on the
\* queue, the statements of the in-process processJob
DispStep ==
    \/ \E w \in Workers : W_Recv(w) \/ W_Start(w) \/ W_Finish(w)
    \/ \E j \in MemJobs : AJ_Send(j)
    \/ \E j \in TaskJobs :
          PJ_Start(j) \/ PJ_Progress(j) \/ PJ_Store(j) \/ PJ_Complete(j)

\* both dispatchers that run processJob in their own process, under fair
\* scheduling: while some goroutine of the dispatcher can take a step, one
\* of them does, and every call of the generator returns
FairDisp == WF_vars(DispStep)

\* WatchJob: one job of the Cloud Tasks dispatcher, submitted with at most
\* one file and delivered once, and one stream handler that opens the stream,
\* takes the updates from the channel and may find its client gone
NextWatch ==
    \/ (GenerateSlides(StreamJob) /\ taskFiles'[StreamJob] <= 1)
    \/ (deliveries[StreamJob] = 0 /\ PS_Start(StreamJob))
    \/ PS_Download(StreamJob)
    \/ PS_Progress(StreamJob) \/ PS_GenFail(StreamJob) \/ PS_Store(StreamJob)
    \/ PS_Cleanup(StreamJob) \/ PS_Complete(StreamJob)
    \/ \E s \in StreamSubs :
          \/ F_Open(s) \/ WJ_Get(s) \/ WJ_Initial(s) \/ WJ_Next(s) \/ WJ_Send(s)
          \/ WJ_Return(s) \/ F_Recv(s) \/ F_RecvClosed(s) \/ F_ClientClose(s)
          \/ F_Gone(s)

SpecWatch == InitTasks /\ [][NextWatch]_vars

\* the in-process Firestore variant: one job and one subscriber of its stream
InitProc == variant = "proc" /\ InitCommon

NextProcWatch ==
    \/ AddJobProc(StreamJob)
    \/ PJ_Start(StreamJob) \/ PJ_Progress(StreamJob) \/ PJ_GenFail(StreamJob)
    \/ PJ_Store(StreamJob) \/ PJ_Complete(StreamJob)
    \/ \E s \in StreamSubs :
          \/ F_Open(s) \/ WJ_Get(s) \/ WJ_Initial(s) \/ WJ_Next(s) \/ WJ_Send(s)
          \/ WJ_Return(s) \/ F_Recv(s) \/ F_RecvClosed(s) \/ F_ClientClose(s)
          \/ F_Gone(s)

SpecProcWatch == InitProc /\ [][NextProcWatch]_vars

\* the two dispatchers with one client of the in-memory one, which submits
\* its jobs one after the other: the next AddJob is called when the one
\* before has returned
NextLive ==
    \/ \E j \in MemJobs :
          \/ (\A k \in MemJobs : k < j => addPc[k] \in {"busy", "done"}) /\ AJ_Check(j)
          \/ AJ_Send(j)
          \/ RemoveJob(j)
    \/ \E w \in Workers : W_Recv(w) \/ W_Start(w) \/ W_Progress(w) \/ W_Finish(w)
    \/ \E j \in TaskJobs :
          \/ AddJobProc(j) \/ PJ_Start(j) \/ PJ_Progress(j)
          \/ PJ_GenFail(j) \/ PJ_Store(j) \/ PJ_Complete(j)

SpecLive == InitDisp /\ [][NextLive]_vars /\ FairDisp

----------------------------------------------------------------------------
(* Claims *)

Statuses == {StatusQueued, StatusProcessing, StatusCompleted, StatusFailed}

\* C1: in the Cloud Tasks variant the stored status of every job is always
\* one of queued, processing, completed, failed, and once it is completed or
\* failed no later write changes it, also when the task endpoint is invoked
\* again with the same payload.
C1_TerminalStatusNeverChanges ==
    [][\A j \in TaskJobs :
          /\ jobStore'[j].exists => jobStore'[j].status \in Statuses
          /\ (jobStore[j].exists /\ Terminal(jobStore[j].status))
                => jobStore'[j].status = jobStore[j].status]_vars

\* C4: in both Firestore-backed dispatchers a job whose stored status is
\* completed has a Result Store entry under its id, also when the write of
\* the result can fail.
C4_CompletedHasResult ==
    \A j \in JobIds :
        (jobStore[j].exists /\ jobStore[j].status = StatusCompleted)
            => resultStore[j].exists

\* C5: in both Firestore-backed dispatchers, when the generation succeeded
\* and the write of status completed failed, the stored status is failed (not
\* processing) and no layer reports the completion: not the in-memory job,
\* not the success log or the 200 answer.
C5_FailedCompletionWriteMarksFailed ==
    \A j \in JobIds :
        completeErr[j] =>
            /\ jobStore[j].exists => jobStore[j].status = StatusFailed
            /\ ~reported[j]
            /\ memStatus[j] # StatusCompleted

\* C10: in the Cloud Tasks variant a submission answered with an error
\* (validation failure, or AddJob failing to stage a file or to create the
\* task) has no Job record in the Job Store.
C10_RejectedLeavesNoRecord ==
    \A j \in TaskJobs :
        submitResp[j] \in {"bad_request", "unavailable"} => ~jobStore[j].exists

\* the updates a stream handler has taken from its channel, in order
Received(s) ==
    LET upd == SelectSeq(events[s], LAMBDA e : e.type = "update")
    IN  [i \in 1..Len(upd) |-> upd[i].u]

StatusRank(st) ==
    CASE st = StatusQueued     -> 0
      [] st = StatusProcessing -> 1
      [] OTHER                 -> 2

\* C2: in the in-memory fan-out the statuses a subscriber receives on its
\* channel form a subsequence of queued, processing*, completed|failed: no
\* earlier status comes after a later one and nothing follows a terminal
\* status.
C2_ReceivedInOrder ==
    \A s \in Subs :
        \A i \in 1..Len(Received(s)) : \A k \in 1..Len(Received(s)) :
            i < k => /\ StatusRank(Received(s)[i].status) <= StatusRank(Received(s)[k].status)
                     /\ ~Terminal(Received(s)[i].status)

\* C3: in the in-memory dispatcher an AddJob call that has passed the
\* capacity check finds room in the queue channel, so that its send never
\* waits for a worker.
C3_AddJobNeverBlocks ==
    \A j \in MemJobs : addPc[j] = "send" => Len(queue) < QueueCap

\* C7: in the in-memory fan-out, once the job is completed or failed, every
\* subscriber that registered before that transition and is still connected
\* has the terminal update in its channel or has received it, so that it
\* still gets it.
C7_TerminalUpdateNotLost ==
    \A s \in Subs :
        ( /\ Terminal(memStatus[FanJob])
          /\ regVer[s] >= 0 /\ regVer[s] < mVer[FanJob]
          /\ ~clientGone[s] )
        => \/ \E i \in 1..Len(chan[s]) :
                 chan[s][i].src = "worker" /\ Terminal(chan[s][i].status)
           \/ \E i \in 1..Len(Received(s)) :
                 Received(s)[i].src = "worker" /\ Terminal(Received(s)[i].status)

\* the updates of the worker a handler has received or still has in its
\* channel, in order
WorkerUpdates(s) ==
    SelectSeq(Received(s) \o chan[s], LAMBDA u : u.src = "worker")

\* C8: in the in-memory fan-out with two subscribers, whatever the other
\* subscriber leaves unread, the worker's next updateJobStatus call can
\* always run, and a subscriber whose own channel was never full has
\* received, or holds in its channel, every update made since it registered,
\* in the order the worker made them.
C8_FanoutIsolation ==
    /\ \A w \in FanWorkers :
          (~crashed /\ workerJob[w] # 0 /\ pcT[workerJob[w]] = "generate")
             => ENABLED W_Finish(w)
    /\ \A s \in Subs :
          (regVer[s] >= 0 /\ dropped[s] = 0)
             => /\ Len(WorkerUpdates(s)) = mVer[FanJob] - regVer[s]
                /\ \A i \in 1..Len(WorkerUpdates(s)) :
                      WorkerUpdates(s)[i].ver = regVer[s] + i

\* one subscriber never read and lost updates, the other received every
\* update up to the terminal one
C8_Witness ==
    \E s \in Subs : \E t \in Subs \ {s} :
        /\ events[t] = <<>> /\ Len(chan[t]) = ChanCap /\ dropped[t] > 0
        /\ regVer[s] = 0 /\ dropped[s] = 0 /\ chan[s] = <<>>
        /\ Terminal(memStatus[FanJob])
        /\ Len(WorkerUpdates(s)) = mVer[FanJob]

InQueue(j) == Cardinality({i \in 1..Len(queue) : queue[i] = j})

\* C9: in the in-memory worker pool and in the in-process Firestore
\* dispatcher processJob is started at most once per job, exactly the
\* admitted jobs that have left the queue (in-memory) or were accepted
\* (in-process) have had it started, and no two workers hold the same job.
C9_ProcessJobOncePerJob ==
    /\ \A j \in JobIds : procCount[j] <= 1
    /\ \A w1 \in Workers : \A w2 \in Workers \ {w1} :
          workerJob[w1] # 0 => workerJob[w1] # workerJob[w2]
    /\ variant = "mem" =>
          \A j \in MemJobs :
              /\ addPc[j] = "done" => InQueue(j) + procCount[j] = 1
              /\ addPc[j] # "done" => InQueue(j) + procCount[j] = 0
    /\ variant = "proc" =>
          \A j \in Jobs : procCount[j] = 1 <=> submitResp[j] = "accepted"

\* two workers run processJob for two different jobs at the same time
C9_Witness ==
    /\ variant = "mem"
    /\ \E w1 \in Workers : \E w2 \in Workers \ {w1} :
          /\ workerJob[w1] # 0 /\ workerJob[w2] # 0
          /\ workerJob[w1] # workerJob[w2]
          /\ pcT[workerJob[w1]] = "generate" /\ pcT[workerJob[w2]] = "generate"
          /\ procCount[workerJob[w1]] = 1 /\ procCount[workerJob[w2]] = 1

\* C6: in the Firestore streaming variant a handler whose WatchJob found the
\* job already completed or failed ends normally: once the goroutine is done
\* the process has not died, and the finished handler has emitted exactly
\* one update, carrying the state WatchJob read, followed by the close event.
C6_TerminalAttachEndsNormally ==
    \A s \in StreamSubs :
        (variant = "tasks" /\ watchPc[s] = "done" /\ Terminal(snap[s].status)
            /\ snap[s].src = "sub")
        => /\ ~crashed
           /\ subPc[s] = "done" =>
                 events[s] = <<Event("update", snap[s]), Event("close", snap[s])>>

\* the run of a job that is in progress or ended last
CurrentRun(j) == IF variant = "tasks" THEN deliveries[j] ELSE procCount[j]

\* the messages that contain the error text e
MessagesWith(e) ==
    CASE e = "documents are too large to process" ->
             {"Failed to generate slides: documents are too large to process"}
      [] e = "upstream failure" -> {"Failed to generate slides: upstream failure"}
      [] e = "render failure"   -> {"Failed to generate slides: render failure"}
      [] OTHER -> {}

\* C11: in both Firestore-backed dispatchers, when the generator returns an
\* error (the input-too-large error included) and the Job Store accepts the
\* status writes of the run, the stored status goes from processing to failed
\* with a message that contains the error text, a stored status leaves queued
\* only for processing, and the run that ended with a generator error has
\* written no Result Store entry for the job.
C11_GeneratorErrorMarksFailed ==
    [][\A j \in JobIds :
          /\ (runEnd'[j].why = "generator" /\ runEnd[j].why # "generator"
                 /\ ~storeFault'[j])
                => /\ jobStore[j].status = StatusProcessing
                   /\ jobStore'[j].status = StatusFailed
                   /\ jobStore'[j].message \in MessagesWith(runEnd'[j].err)
          /\ (jobStore[j].exists /\ jobStore[j].status = StatusQueued
                 /\ jobStore'[j].status # StatusQueued /\ ~storeFault'[j])
                => jobStore'[j].status = StatusProcessing
          /\ runEnd'[j].why = "generator"
                => /\ resultStore'[j] = resultStore[j]
                   /\ ~(resultStore'[j].exists
                          /\ resultStore'[j].run = CurrentRun(j)')]_vars

\* a first run ended with the input-too-large error and the job is failed
C11_Witness ==
    \E j \in JobIds :
        /\ runEnd[j] = [why |-> "generator", err |-> "documents are too large to process"]
        /\ ~storeFault[j] /\ CurrentRun(j) = 1
        /\ jobStore[j].status = StatusFailed
        /\ jobStore[j].message = "Failed to generate slides: documents are too large to process"
        /\ ~resultStore[j].exists

\* C12: in the Cloud Tasks variant a run in which only the write of a
\* progress update was rejected (the initial "Processing slides" write or a
\* progress callback of the generator) is not ended by that: it ends with the
\* job completed and its result stored.
C12_ProgressWriteFailureDoesNotAbort ==
    \A j \in TaskJobs :
        runEnd[j].why \in {"start", "callback"}
            => /\ jobStore[j].status = StatusCompleted
               /\ resultStore[j].exists

\* C13: in the Cloud Tasks variant, when a run for a job with staged files
\* has ended on one of the terminal paths (generator success, generator
\* failure, download failure, result-store failure), the run has gone
\* through the loop that deletes each staged file.
C13_CleanupOnEveryTerminalPath ==
    \A j \in TaskJobs :
        (taskFiles[j] > 0 /\ pcT[j] = "idle"
            /\ runEnd[j].why \in {"ok", "generator", "download", "store"})
        => cleanupTried[j]

\* C14: in both Firestore-backed dispatchers every job document whose stored
\* status is completed or failed has a non-zero expiry timestamp.
C14_TerminalHasExpiry ==
    \A j \in JobIds :
        (jobStore[j].exists /\ Terminal(jobStore[j].status))
            => jobStore[j].expiresAt > 0

\* the expiry of a record is set and has passed at time t
PastExpiryAt(doc, t) == doc.exists /\ doc.expiresAt > 0 /\ t > doc.expiresAt

Shown(resp) == <<resp.found, resp.status, resp.url>>

C17_CloseOnlyAfterTerminalUpdate ==
    \A s \in Subs :
        \A i \in 1..Len(events[s]) :
            events[s][i].type = "close" =>
                /\ i = Len(events[s])
                /\ i > 1
                /\ events[s][i - 1].type = "update"
                /\ events[s][i - 1].u.status \in {StatusCompleted, StatusFailed}
                /\ events[s][i].u = events[s][i - 1].u
                /\ subPc[s] = "done"

\* a stream that emitted a heartbeat and an update with status processing
\* and then ended with the update of a final status and the close event
C17_Witness ==
    \E s \in Subs :
        /\ Len(events[s]) >= 4
        /\ events[s][Len(events[s])].type = "close"
        /\ events[s][Len(events[s]) - 1].type = "update"
        /\ Terminal(events[s][Len(events[s]) - 1].u.status)
        /\ \E i \in 1..Len(events[s]) : events[s][i].type = "ping"
        /\ \E i \in 1..Len(events[s]) :
              events[s][i].type = "update" /\ events[s][i].u.status = StatusProcessing

\* C19: in the in-memory streaming variant a channel that its handler has
\* closed is no longer in the Subscribers set of the job, on every path by
\* which the handler ends, and the worker's updateJobStatus never sends on a
\* closed channel (the process does not panic).
C19_ClosedChannelNotSubscribed ==
    /\ \A s \in Subs : chanClosed[s] => s \notin jobSubs[FanJob]
    /\ ~crashed

\* C18: the step in which a stream handler ends because its client has gone
\* or its stream was cancelled changes neither the status and message of the
\* job (stored or in memory) nor the position of the worker that processes
\* it nor the channel, the events and the registration of any other
\* subscriber; and the worker goes on afterwards: no update it makes after a
\* disconnect ends the process.
C18_DisconnectLeavesJobAlone ==
    /\ [][\A s \in Subs :
             (clientGone[s] /\ subPc[s] # "done" /\ subPc'[s] = "done") =>
                /\ UNCHANGED <<jobStore, memStatus, mVer, mUrl, workerJob, pcT,
                               genStep, crashed>>
                /\ \A t \in Subs \ {s} :
                      /\ chan'[t] = chan[t] /\ events'[t] = events[t]
                      /\ (t \in jobSubs'[FanJob]) = (t \in jobSubs[FanJob])]_vars
    /\ [](~crashed)

\* the jobs of the in-process dispatcher that are in flight: admitted and
\* not yet completed or failed
InFlightProc ==
    {j \in Jobs : variant = "proc" /\ submitResp[j] = "accepted"
                     /\ ~Terminal(memStatus[j])}

\* C20: the in-process dispatcher keeps the number of jobs in flight under a
\* fixed bound and rejects the submission that would exceed it: with NumJobs
\* concurrent submissions and any bound below NumJobs, never are all of
\* them in flight at once.
C20_InFlightBounded == Cardinality(InFlightProc) < NumJobs

\* the pairings of extension and sniffed type that the file check is to
\* accept: application/pdf for .pdf only, a text type for .md and .txt only
ConsistentFile(f) ==
    \/ f.ext = ".pdf" /\ f.mime = "application/pdf"
    \/ f.ext \in {".md", ".txt"}
          /\ f.mime \in {"text/plain", "text/markdown", "text/html", "text/xml"}

\* the submit handler has answered a request whose theme and settings are
\* valid and that carries one file
OneFileAnswered(j) ==
    /\ submitResp[j] # "none"
    /\ req.theme \in ValidThemes
    /\ req.detail \in ValidSlideDetails /\ req.audience \in ValidAudiences
    /\ Len(req.files) = 1

\* C21: the submit handler's file check accepts a file if and only if its
\* extension is .pdf, .md or .txt and its sniffed type is consistent with
\* the extension, for every pairing of extension and sniffed type: a request
\* that is valid otherwise is answered with a validation error exactly when
\* its file is not consistent.
C21_FileCheckConsistent ==
    \A j \in TaskJobs :
        OneFileAnswered(j) =>
            (submitResp[j] # "bad_request" <=> ConsistentFile(req.files[1]))

\* C22: every request whose theme is not in ValidThemes, whose slideDetail
\* is not in ValidSlideDetails or whose audience is not in ValidAudiences,
\* the empty string included, is answered with a validation error and no
\* job document is created for it.
C22_InvalidSettingsRejected ==
    \A j \in TaskJobs :
        (submitResp[j] # "none"
            /\ (req.theme \notin ValidThemes \/ req.detail \notin ValidSlideDetails
                  \/ req.audience \notin ValidAudiences))
        => (submitResp[j] = "bad_request" /\ ~jobStore[j].exists)

\* C23: GetResult returns the artifact of a job only if the stored status of
\* that job has reached completed; for a job that never completed (queued,
\* processing or failed) it answers not-found, whatever steps ProcessSlides
\* has taken and whichever store writes have failed.
C23_ResultOnlyIfCompleted ==
    \A j \in JobIds : resResp[j].found => everCompleted[j]

\* the job is completed and has a result
CompletedWithResult(j) ==
    /\ jobStore[j].exists /\ jobStore[j].status = StatusCompleted
    /\ resultStore[j].exists

Admitted(j) ==
    \/ variant = "mem" /\ j \in MemJobs /\ addPc[j] = "done"
    \/ variant = "proc" /\ j \in TaskJobs /\ submitResp[j] = "accepted"

\* C25: in the in-memory dispatcher and in the in-process Firestore
\* dispatcher, under fair scheduling and with a generator that returns,
\* every job that AddJob has admitted (AddJob has returned the job) reaches
\* status completed or failed in the end: from some moment on, every
\* admitted job is completed or failed, and stays so. The status is the one
\* of the Job that processJob holds; in the in-process Firestore dispatcher
\* the stored record has the same status when none of the job's writes was
\* rejected.
C25_AdmittedJobTerminates ==
    <>[](\A j \in MemJobs \cup TaskJobs :
            Admitted(j) =>
               /\ Terminal(memStatus[j])
               /\ (variant = "proc" /\ ~storeFault[j]) =>
                     /\ jobStore[j].exists
                     /\ jobStore[j].status = memStatus[j])

\* every job of the in-memory dispatcher was admitted and has ended, one of
\* them completed and one of them failed
C25_Witness ==
    /\ variant = "mem"
    /\ \A j \in MemJobs : Admitted(j) /\ Terminal(memStatus[j])
    /\ \E j, k \in MemJobs : memStatus[j] = StatusCompleted /\ memStatus[k] = StatusFailed

\* ProcessSlides has recorded a generation failure for job j: the generator
\* returned an error, status failed is stored and the request was answered
RecordedGenFailure(j) ==
    /\ variant = "tasks"
    /\ pcT[j] = "idle"
    /\ runEnd[j].why = "generator"
    /\ jobStore[j].exists
    /\ jobStore[j].status = StatusFailed

\* C26: in the Cloud Tasks variant, once ProcessSlides has recorded a
\* generation failure for a job, the task of that job is not delivered and
\* processed again: no further run of ProcessSlides starts for the job id.
C26_NoRunAfterRecordedFailure ==
    [][\A j \in TaskJobs :
          RecordedGenFailure(j) => deliveries'[j] = deliveries[j]]_vars

\* C27: in the Cloud Tasks variant a failed delete of a staged file after a
\* successful generation does not change the job's outcome. The cleanup loop
\* tries every reference and then goes on to setJobCompleted whatever was
\* deleted, touching neither the job record nor the Result entry nor the
\* answer; and a run whose completion write was accepted ends with the job
\* completed, its Result entry present and answer 200, with or without
\* staged files left.
C27_CleanupFailureKeepsOutcome ==
    /\ [](\A j \in TaskJobs :
            (variant = "tasks" /\ runEnd[j].why = "ok") =>
               /\ cleanupTried[j]
               /\ jobStore[j].exists /\ jobStore[j].status = StatusCompleted
               /\ resultStore[j].exists
               /\ lastResp[j] = 200)
    /\ [][\A j \in TaskJobs :
            (variant = "tasks" /\ pcT[j] = "cleanup" /\ pcT'[j] # "cleanup") =>
               /\ pcT'[j] = "complete"
               /\ cleanupTried'[j]
               /\ blobs'[j] \subseteq blobs[j]
               /\ UNCHANGED <<jobStore, resultStore, lastResp, runEnd>>]_vars

\* a job with two staged files ended completed with its result stored after
\* a cleanup loop in which one delete failed and the other one succeeded
C27_Witness ==
    \E j \in TaskJobs :
        /\ variant = "tasks"
        /\ runEnd[j].why = "ok"
        /\ taskFiles[j] = 2
        /\ Cardinality(blobs[j]) = 1
        /\ jobStore[j].exists /\ jobStore[j].status = StatusCompleted
        /\ resultStore[j].exists

\* the updates WatchJob of handler s has sent so far, in the order of the
\* sends: the ones the stream loop has taken from the channel and emitted,
\* then the ones still in the channel
Delivered(s) ==
    LET emitted == SelectSeq(events[s], LAMBDA e : e.type = "update")
    IN  [i \in 1..Len(emitted) |-> emitted[i].u] \o chan[s]

\* the place of a job state in the order in which one run of the dispatcher
\* writes the states: queued by AddJob, "Processing slides", the progress
\* messages of the generator, then completed or failed
WriteOrder(u) ==
    CASE u.status = StatusQueued -> 0
      [] u.status = StatusProcessing /\ u.ver = "Processing slides" -> 1
      [] u.status = StatusProcessing /\ (\E i \in 1..NumProgress : u.ver = ProgressMsg(i)) ->
            1 + (CHOOSE i \in 1..NumProgress : u.ver = ProgressMsg(i))
      [] OTHER -> NumProgress + 2

\* C28: in the Firestore streaming variant WatchJob (the GetJob snapshot,
\* then the snapshot listener) delivers the states of a job in the order the
\* dispatcher wrote them: a delivered state is never older than one delivered
\* before it (a repeat of the current state may occur), a completed or failed
\* state is the last one delivered, and WatchJob returns nil only from the
\* send of a completed or failed state.
C28_WatchJobDeliversInWriteOrder ==
    /\ [](\A s \in StreamSubs :
            variant = "tasks" =>
               \A i, k \in 1..Len(Delivered(s)) :
                  i < k =>
                     /\ WriteOrder(Delivered(s)[i]) <= WriteOrder(Delivered(s)[k])
                     /\ Delivered(s)[i].status \notin {StatusCompleted, StatusFailed})
    /\ [][\A s \in StreamSubs :
            (/\ variant = "tasks"
             /\ watchPc[s] \in {"initial", "send"}
             /\ watchPc'[s] = "return"
             /\ Len(chan'[s]) > Len(chan[s])) =>
               chan'[s][Len(chan'[s])].status \in {StatusCompleted, StatusFailed}]_vars

\* a handler that attached to a job not yet ended was sent three states or
\* more by WatchJob, the last one completed, and WatchJob has returned
C28_Witness ==
    \E s \in StreamSubs :
        /\ variant = "tasks"
        /\ watchPc[s] = "done"
        /\ Len(Delivered(s)) >= 3
        /\ Delivered(s)[1].status \notin {StatusCompleted, StatusFailed}
        /\ Delivered(s)[Len(Delivered(s))].status = StatusCompleted

\* the jobs of the in-memory dispatcher between their transition to
\* processing and their terminal status
InProcessing == {j \in MemJobs : memStatus[j] = StatusProcessing}

StoredThisRun(j) ==
    /\ variant = "tasks"
    /\ \/ pcT[j] \in {"cleanup", "complete"}
       \/ pcT[j] = "idle" /\ runEnd[j].why \in {"ok", "complete"}

\* C30: in the Cloud Tasks variant a run of ProcessSlides for a job id that
\* was processed before overwrites the Result entry of that id. The entry of
\* a job is the one document keyed by the job id; every write of it puts the
\* artifact of the run that writes in its place, so that after any number
\* of successful runs it holds the artifact of the latest one.
C30_RerunOverwritesResult ==
    /\ [](\A j \in TaskJobs :
            variant = "tasks" =>
               /\ resultStore[j].exists =>
                     /\ resultStore[j].resultUrl = j
                     /\ resultStore[j].run \in 1..deliveries[j]
               /\ StoredThisRun(j) =>
                     /\ resultStore[j].exists
                     /\ resultStore[j].run = deliveries[j])
    /\ [][\A j \in TaskJobs :
            (variant = "tasks" /\ resultStore'[j] # resultStore[j]) =>
               /\ resultStore'[j].exists
               /\ resultStore'[j].run = deliveries[j]
               /\ \A k \in JobIds \ {j} : resultStore'[k] = resultStore[k]]_vars

\* the second run for a job id has ended with the job completed and the
\* Result entry holds the artifact of that second run
C30_Witness ==
    \E j \in TaskJobs :
        /\ variant = "tasks"
        /\ deliveries[j] = 2
        /\ runEnd[j].why = "ok"
        /\ everCompleted[j]
        /\ resultStore[j].exists
        /\ resultStore[j].run = 2

\* C31: in the Cloud Tasks variant a staged file leaves blob storage only
\* when the stored status of its job is completed or failed: no step deletes
\* a staged file of a job whose stored status is not terminal.
C31_DeleteOnlyAfterTerminalWrite ==
    [][\A j \in TaskJobs :
          (variant = "tasks" /\ blobs'[j] # blobs[j] /\ blobs'[j] \subseteq blobs[j]) =>
             /\ jobStore[j].exists
             /\ jobStore[j].status \in {StatusCompleted, StatusFailed}]_vars

\* the mutexes goroutine p holds
Holds(p) ==
    (IF svcMu.w = p \/ p \in svcMu.r THEN {"s.mu"} ELSE {}) \cup
    (IF jobMu = p THEN {"job.mu"} ELSE {})

\* the statements at which a goroutine may wait for another one: a blocking
\* channel send or receive and the generator call
Blocking(pc) ==
    pc \in {At("AddJob", "send"), At("Subscribe", "send"),
            At("processJob", "generate"), At("worker", "recv"),
            At("StreamSlideStatus", "loop")}

\* C32: in the in-memory variant no goroutine holds the service mutex or the
\* job mutex at a blocking channel operation or inside the generator call;
\* the service mutex is held only around an access to the jobs map and the
\* job mutex only while a subscriber is registered or removed or one update
\* is written and handed out with non-blocking sends.
C32_NoLockWhileBlocking ==
    variant = "mem" =>
      \A p \in LockProcs :
         /\ Blocking(lockPc[p]) => Holds(p) = {}
         /\ "s.mu" \in Holds(p) =>
               /\ lockPc[p].fn \in {"AddJob", "removeJob", "GetJob", "Subscribe", "Unsubscribe"}
               /\ lockPc[p].at \in {"body", "Unlock", "lookup", "RUnlock"}
               /\ jobMu # p
         /\ "job.mu" \in Holds(p) =>
               /\ lockPc[p].fn \in {"Subscribe", "Unsubscribe", "updateJobStatus"}
               /\ lockPc[p].at \in {"body", "rest", "notify", "Unlock"}

C32_Witness ==
    /\ variant = "mem"
    /\ lockPc["handler"] = At("Subscribe", "send")
    /\ lkChan = ChanCap
    /\ lockPc["worker"] = At("updateJobStatus", "notify")
    /\ jobMu = "worker"

\* the updates handed to subscriber s so far: those waiting in its channel
\* and those its stream has written out
Emitted(s) ==
    {chan[s][i] : i \in 1..Len(chan[s])} \cup
    {events[s][i].u : i \in {k \in 1..Len(events[s]) : events[s][k].type = "update"}}

\* C33: every update handed to a subscriber carries a result reference if
\* and only if its status is completed.
C33_ResultReferenceIffCompleted ==
    \A s \in Subs : \A u \in Emitted(s) : u.url <=> u.status = StatusCompleted

\* C35: in the Firestore streaming variant the updates channel of a stream is
\* closed at most once: the deferred close of the handler goroutine never
\* runs on a channel that WatchJob has closed already.
C35_ChannelClosedAtMostOnce ==
    [][\A s \in StreamSubs :
          (variant \in FirestoreVariants /\ watchPc[s] = "return" /\ watchPc'[s] = "done")
             => ~chanClosed[s]]_vars

\* the dispatcher has written a completed or failed status of the streamed
\* job, and a Firestore record of it has not expired
TerminalWritten ==
    IF variant = "mem"
    THEN Terminal(memStatus[FanJob])
    ELSE /\ jobStore[StreamJob].exists
         /\ Terminal(jobStore[StreamJob].status)
         /\ ~Expired(jobStore[StreamJob])

\* the kinds of the events a stream has written out
Kinds(s) == {events[s][i].type : i \in 1..Len(events[s])}

\* C34: the in-memory stream and the Firestore stream answer alike. A client
\* that attaches after the terminal status was written gets the terminal
\* update and the close event from the Firestore stream; so in either
\* variant no handler answers 404 for a job whose terminal status is
\* written.
C34_SameEventsInBothVariants ==
    [][\A s \in Subs :
          (TerminalWritten /\ "404" \in Kinds(s)')
             => "404" \in Kinds(s)]_vars

\* C36: in the in-memory variant Subscribe always returns: when it reaches
\* the send of the initial update its channel, which only the stream loop
\* of the same handler reads after Subscribe has returned, has room.
C36_SubscribeReturns ==
    \A s \in Subs :
       (variant = "mem" /\ subPc[s] = "send") => Len(chan[s]) < ChanCap

\* C37: in the in-memory variant the fields the handler has read for the
\* initial update of Subscribe or for its JSON answer form a consistent
\* snapshot: the status and the other fields come from the same write of
\* updateJobStatus.
C37_ConsistentSnapshot ==
    (variant = "mem" /\ lkSnap.status >= 0 /\ lkSnap.rest >= 0)
       => lkSnap.status = lkSnap.rest

\* C38: in the Cloud Tasks variant the files of one submission are staged
\* under distinct object paths, repeated filenames included: every
\* FileReference of the task payload yields the bytes of its own file, and
\* every Delete of the cleanup loop removes an object.
C38_OwnBytesAndOneDeleteEach ==
    variant = "tasks" =>
       /\ \A i \in 1..Len(stRefs) : \A k \in 1..Len(stRefs) :
             i # k => stRefs[i].GCSPath # stRefs[k].GCSPath
       /\ \A i \in 1..Len(stGot) : stGot[i] = i
       /\ \A i \in 1..Len(stDel) : stDel[i]

\* C39: for every theme the submit handler accepts, generateThemeExample
\* builds the example from the themeConfigs entry of that theme and not from
\* the entry of the default theme it falls back to.
C39_ValidThemeHasOwnConfig ==
    (themeEx.built /\ themeEx.Theme \in ValidThemes) => themeEx.key = themeEx.Theme

====
